---------------------------- MODULE Spec2Model ----------------------------
(***************************************************************************)
(* Model of the contact pipeline of office-365-mcp-server:                 *)
(*   utils/deduplicator.js       mergeContacts, deduplicateContacts,       *)
(*                                calculateConfidence, normalizeContact    *)
(*   utils/newsletter-detector.js detectNewsletter, the six scanners,      *)
(*                                applyWhitelistBlacklist, clearCache      *)
(*   utils/csv-generator.js      escapeCSVField, arrayToCSVString,         *)
(*                                generateCSV                              *)
(*   utils/html-processor.js     extractSignature                          *)
(*   tools/email-contact-extractor.js fetchEmails,                         *)
(*                                extractContactsFromEmail,                *)
(*                                extractContactsFromEmails                *)
(*   auth/token-manager.js       getAccessToken                            *)
(* JavaScript strings that the code lower-cases, trims or splits are       *)
(* sequences of atoms (a character or a word); strings the code only tests *)
(* against a pattern are TLA+ strings.  null / undefined / an absent key   *)
(* is Null (scalars) or NullSeq (arrays and atom strings); a value of a    *)
(* type without string methods is NonString / NonStringSeq.                *)
(***************************************************************************)
EXTENDS Integers, Sequences, FiniteSets, TLC

VARIABLES
    contacts,        \* deduplicator: the input list of deduplicateContacts
    permuted,        \* deduplicator: a permutation of contacts
    out,             \* deduplicator: deduplicateContacts(contacts)
    outPerm,         \* deduplicator: deduplicateContacts(permuted)
    outTwice,        \* deduplicator: deduplicateContacts(out.deduplicated)
    dpc,             \* deduplicator: position of the driver
    detectionCache,  \* detector: the module-level Map, oldest entry first
    email,           \* detector: the message of the latest call
    threshold,       \* detector: the threshold of the latest call
    rules,           \* detector: the rule set of the run
    detection,       \* detector: the result of the latest detectNewsletter call
    scanned,         \* detector: whether the latest call ran the scanners
    finalDetection,  \* detector: the result of applyWhitelistBlacklist
    npc,             \* detector: position of the driver
    existing,        \* merge: the first argument of mergeContacts
    incoming,        \* merge: the second argument of mergeContacts
    merged,          \* merge: mergeContacts(existing, incoming)
    mpc,             \* merge: position of the driver
    raw,             \* normalizer: the argument of normalizeContact
    normalizedContact, \* normalizer: normalizeContact(raw), as a list of 0 or 1
    zpc,             \* normalizer: position of the driver
    rows,            \* export: the argument of generateCSV
    csv,             \* export: generateCSV(rows)
    cpc,             \* export: position of the driver
    bodyText,        \* signature: the argument of extractSignature
    signature,       \* signature: extractSignature(bodyText)
    gpc,             \* signature: position of the driver
    mailbox,         \* run: the pages the message source answers with
    args,            \* run: the arguments of extractContactsFromEmails
    emails,          \* run: the messages fetched so far
    unique,          \* run: the result of deduplicateContacts
    exported,        \* run: the contacts written to the CSV file, as a list of 0 or 1 lists
    response,        \* run: the kind of tool response returned
    rpc,             \* run: position of the run
    cursor,          \* run: index of the message whose detection is awaited
    emailsToProcess, \* run: the messages the newsletter filter has kept so far
    outlookEmails,   \* run: the addresses collected from the Outlook contacts
    cachedTokens,    \* tokens: the module-level cache of token-manager.js
    refreshPromise,  \* tokens: the pending refresh, 0 when there is none
    refreshes,       \* tokens: the state of every refresh started so far
    callers,         \* tokens: the getAccessToken calls under way
    tokenFile,       \* tokens: the tokens held by the token file
    cacheCall,       \* tokens: the latest direct call of the cache functions
    request,         \* graph: the arguments of the callGraphAPI invocation
    queryParams,     \* graph: the caller's queryParams object, as its entries
    attempts,        \* graph: the requests sent, each with the status received
    retryCount,      \* graph: the retryCount of the current attempt
    promise,         \* graph: the state of the promise returned to the caller
    kpc              \* graph: position of the invocation

dvars == <<contacts, permuted, out, outPerm, outTwice, dpc>>

nvars == <<detectionCache, email, threshold, rules, detection, scanned,
           finalDetection, npc>>

mvars == <<existing, incoming, merged, mpc>>

zvars == <<raw, normalizedContact, zpc>>

cvars == <<rows, csv, cpc>>

gvars == <<bodyText, signature, gpc>>

rvars == <<mailbox, args, emails, unique, exported, response, rpc,
          cursor, emailsToProcess, outlookEmails>>

tvars == <<cachedTokens, refreshPromise, refreshes, callers, tokenFile, cacheCall>>

kvars == <<request, queryParams, attempts, retryCount, promise, kpc>>

\* the variables of the drivers other than the deduplicator's and the detector's
svars == <<mvars, zvars, cvars, gvars, rvars, tvars, kvars>>

vars == <<contacts, permuted, out, outPerm, outTwice, dpc,
          detectionCache, email, threshold, rules, detection, scanned,
          finalDetection, npc, existing, incoming, merged, mpc,
          raw, normalizedContact, zpc, rows, csv, cpc, bodyText, signature, gpc,
          mailbox, args, emails, unique, exported, response, rpc,
          cursor, emailsToProcess, outlookEmails,
          cachedTokens, refreshPromise, refreshes, callers, tokenFile, cacheCall,
          request, queryParams, attempts, retryCount, promise, kpc>>

-----------------------------------------------------------------------------
(* Values *)

Null == "<null>"
NullSeq == <<Null>>
NonString == "<non-string>"
NonStringSeq == <<NonString>>

\* Longest input list of deduplicateContacts explored
MaxLen == 3
\* Longest list of sightings of one identity explored
MaxSightings == 3

RECURSIVE SeqsUpTo(_, _)
SeqsUpTo(S, n) ==
    IF n = 0 THEN {<<>>}
    ELSE LET shorter == SeqsUpTo(S, n - 1)
         IN  shorter \cup {Append(s, x) : s \in {t \in shorter : Len(t) = n - 1}, x \in S}

Range(s) == {s[i] : i \in 1..Len(s)}

\* the orderings of the list s
PermutationsOf(s) ==
    {[i \in 1..Len(s) |-> s[p[i]]] : p \in Permutations(1..Len(s))}

-----------------------------------------------------------------------------
(* String primitives *)

\* String.prototype.toLowerCase on one atom
LowerChar(c) ==
    CASE c = "A" -> "a"
      [] c = "B" -> "b"
      [] c = "NoReply" -> "noreply"
      [] c = "Bob" -> "bob"
      [] c = "Trusted.COM" -> "trusted.com"
      [] c = "Spam.com" -> "spam.com"
      [] c = "List-Unsubscribe" -> "list-unsubscribe"
      [] c = "Precedence" -> "precedence"
      [] c = "List-ID" -> "list-id"
      [] c = "X-Mailer" -> "x-mailer"
      [] c = "X-Campaign" -> "x-campaign"
      [] c = "From" -> "from"
      [] c = "Bulk" -> "bulk"
      [] c = "MailChimp Mailer" -> "mailchimp mailer"
      [] c = "<mailto:unsub@x.com>" -> "<mailto:unsub@x.com>"
      [] c = "Unsubscribe here" -> "unsubscribe here"
      [] c = "View this email in your browser" -> "view this email in your browser"
      [] c = "Update your preferences" -> "update your preferences"
      [] c = "Manage your subscription" -> "manage your subscription"
      [] c = "Vous recevez ce message" -> "vous recevez ce message"
      [] c = "You are receiving this email" -> "you are receiving this email"
      [] c = "Follow us on Twitter" -> "follow us on twitter"
      [] c = "Mentions legales" -> "mentions legales"
      [] c = "Privacy Policy" -> "privacy policy"
      [] c = "Hi John, here is the update." -> "hi john, here is the update."
      [] c = "<IMG WIDTH=1 HEIGHT=1>" -> "<img width=1 height=1>"
      [] c = "<TABLE>" -> "<table>"
      [] c = "Valued Customer" -> "valued customer"
      [] c = "John Doe" -> "john doe"
      [] c = "Weekly Newsletter" -> "weekly newsletter"
      [] c = "Re: Project" -> "re: project"
      [] c = "[PROMO] Special Offer!" -> "[promo] special offer!"
      [] c = "Promo" -> "promo"
      [] c = "bob@Company.com" -> "bob@company.com"
      [] c = "Test" -> "test"
      [] c = "John" -> "john"
      [] c = "Doe" -> "doe"
      [] c = "Bo" -> "bo"
      [] c = "Al" -> "al"
      [] c = "Li" -> "li"
      [] c = "Say" -> "say"
      [] c = "Hello" -> "hello"
      [] c = "Paris" -> "paris"
      [] c = "ACME" -> "acme"
      [] c = "CEO" -> "ceo"
      [] c = "Initech" -> "initech"
      [] c = "Valued" -> "valued"
      [] c = "Customer" -> "customer"
      [] c = "C" -> "c"
      [] c = "E" -> "e"
      [] c = "H" -> "h"
      [] c = "J" -> "j"
      [] c = "L" -> "l"
      [] c = "R" -> "r"
      [] c = "S" -> "s"
      [] c = "T" -> "t"
      [] OTHER -> c

\* String.prototype.toLowerCase
ToLowerCase(s) == [i \in 1..Len(s) |-> LowerChar(s[i])]

IsSpace(c) == c \in {" ", "\t", "\n"}

RECURSIVE TrimStart(_)
TrimStart(s) ==
    IF s = <<>> THEN s
    ELSE IF IsSpace(Head(s)) THEN TrimStart(Tail(s)) ELSE s

RECURSIVE TrimEnd(_)
TrimEnd(s) ==
    IF s = <<>> THEN s
    ELSE IF IsSpace(s[Len(s)]) THEN TrimEnd(SubSeq(s, 1, Len(s) - 1)) ELSE s

\* String.prototype.trim
Trim(s) == TrimEnd(TrimStart(s))

\* JavaScript truthiness of a string-or-null scalar
TruthyStr(v) == v # Null /\ v # ""
\* JavaScript truthiness of a character string (email) or null
TruthyChars(v) == v # NullSeq /\ v # <<>>
\* JavaScript truthiness of an array-or-null value (an empty array is truthy)
TruthyList(v) == v # NullSeq
\* Array.isArray
IsArray(v) == v # NullSeq

-----------------------------------------------------------------------------
(* utils/deduplicator.js *)

\* new Date(s).getTime() for the date strings used
DateValue(d) ==
    CASE d = "2024-01-01T00:00:00Z" -> 1
      [] d = "2024-01-01T00:00:00.000Z" -> 1
      [] d = "2024-01-02T00:00:00Z" -> 2
      [] d = "2024-01-03T00:00:00Z" -> 3
      [] OTHER -> 0

\* const sourcePreference = { metadata: 3, signature: 2, body: 1 }
sourcePreference(source) ==
    CASE source = "metadata" -> 3
      [] source = "signature" -> 2
      [] source = "body" -> 1
      [] OTHER -> 0

getSourcePriority(source) == sourcePreference(source)

\* const confidenceLevels = { high: 3, medium: 2, low: 1 }
confidenceLevels(c) ==
    CASE c = "high" -> 3
      [] c = "medium" -> 2
      [] c = "low" -> 1
      [] OTHER -> 0

\* MergeValue with the priorities compared by >=
MergeValueTies(val1, val2, t1, t2, contact1, contact2) ==
    IF t2 /\ ~t1 THEN val2
    ELSE IF t1 /\ t2
              /\ getSourcePriority(contact2.source) >= getSourcePriority(contact1.source)
         THEN val2
         ELSE val1

\* the body of the Object.keys(contact2).forEach callback for one key
MergeValue(val1, val2, t1, t2, contact1, contact2) ==
    IF t2 /\ ~t1 THEN val2
    ELSE IF t1 /\ t2
              /\ getSourcePriority(contact2.source) > getSourcePriority(contact1.source)
         THEN val2
         ELSE val1

MergeStr(contact1, contact2, key) ==
    MergeValue(contact1[key], contact2[key],
               TruthyStr(contact1[key]), TruthyStr(contact2[key]), contact1, contact2)

MergeList(contact1, contact2, key) ==
    MergeValue(contact1[key], contact2[key],
               TruthyList(contact1[key]), TruthyList(contact2[key]), contact1, contact2)

MergeBool(contact1, contact2, key) ==
    MergeValue(contact1[key], contact2[key],
               contact1[key], contact2[key], contact1, contact2)

\* [...new Set([...a, ...b])]: concatenation with later repeats dropped
RECURSIVE Uniq(_)
Uniq(s) ==
    IF s = <<>> THEN <<>>
    ELSE LET front == SubSeq(s, 1, Len(s) - 1)
             last  == s[Len(s)]
         IN  IF last \in Range(front) THEN Uniq(front)
             ELSE Append(Uniq(front), last)

UnionList(a, b) == Uniq(a \o b)

MergedArray(contact1, contact2, key) ==
    IF IsArray(contact1[key]) /\ IsArray(contact2[key])
    THEN UnionList(contact1[key], contact2[key])
    ELSE MergeList(contact1, contact2, key)

MergedConfidence(contact1, contact2) ==
    LET generic == MergeStr(contact1, contact2, "extractionConfidence")
    IN  IF TruthyStr(contact2.extractionConfidence)
           /\ TruthyStr(contact1.extractionConfidence)
           /\ confidenceLevels(contact2.extractionConfidence)
                > confidenceLevels(contact1.extractionConfidence)
        THEN contact2.extractionConfidence
        ELSE generic

MergedFirstSeen(contact1, contact2) ==
    IF TruthyStr(contact1.firstSeenDate) /\ TruthyStr(contact2.firstSeenDate)
    THEN IF DateValue(contact1.firstSeenDate) < DateValue(contact2.firstSeenDate)
         THEN contact1.firstSeenDate
         ELSE contact2.firstSeenDate
    ELSE MergeStr(contact1, contact2, "firstSeenDate")

mergeContacts(contact1, contact2) ==
    [ email                |-> contact1.email,
      displayName          |-> MergeStr(contact1, contact2, "displayName"),
      firstName            |-> MergeStr(contact1, contact2, "firstName"),
      lastName             |-> MergeStr(contact1, contact2, "lastName"),
      phoneNumbers         |-> MergedArray(contact1, contact2, "phoneNumbers"),
      linkedInUrls         |-> MergedArray(contact1, contact2, "linkedInUrls"),
      companyName          |-> MergeStr(contact1, contact2, "companyName"),
      jobTitle             |-> MergeStr(contact1, contact2, "jobTitle"),
      source               |-> MergeStr(contact1, contact2, "source"),
      isInOutlook          |-> MergeBool(contact1, contact2, "isInOutlook"),
      firstSeenDate        |-> MergedFirstSeen(contact1, contact2),
      extractionConfidence |-> MergedConfidence(contact1, contact2) ]

\* ContactKey without the toLowerCase() call
ContactKeyCaseSensitive(contact) == Trim(contact.email)

\* const email = contact.email.toLowerCase().trim()
ContactKey(contact) == Trim(ToLowerCase(contact.email))

\* Map.prototype.has / get / set on an insertion-ordered list of entries
MapHas(m, k) == \E i \in 1..Len(m) : m[i].key = k
MapIndex(m, k) == CHOOSE i \in 1..Len(m) : m[i].key = k
MapGet(m, k) == m[MapIndex(m, k)].value
MapSet(m, k, v) ==
    IF MapHas(m, k)
    THEN [m EXCEPT ![MapIndex(m, k)] = [key |-> k, value |-> v]]
    ELSE Append(m, [key |-> k, value |-> v])
\* the values collected newest first
MapValuesNewestFirst(m) == [i \in 1..Len(m) |-> m[Len(m) + 1 - i].value]
\* Array.from(contactMap.values())
MapValues(m) == [i \in 1..Len(m) |-> m[i].value]

\* the contacts.forEach callback, applied to the map built so far
DedupStep(contactMap, contact) ==
    IF ~TruthyChars(contact.email) THEN contactMap
    ELSE LET key == ContactKey(contact)
         IN  IF MapHas(contactMap, key)
             THEN MapSet(contactMap, key,
                         mergeContacts(MapGet(contactMap, key), contact))
             ELSE MapSet(contactMap, key, contact)

RECURSIVE DedupFold(_, _)
DedupFold(contactMap, list) ==
    IF list = <<>> THEN contactMap
    ELSE DedupFold(DedupStep(contactMap, Head(list)), Tail(list))

deduplicateContacts(list) ==
    IF Len(list) = 0
    THEN [deduplicated |-> <<>>, duplicatesRemoved |-> 0]
    ELSE LET deduplicated == MapValues(DedupFold(<<>>, list))
         IN  [deduplicated |-> deduplicated,
              duplicatesRemoved |-> Len(list) - Len(deduplicated)]

\* String.prototype.trim on a text field
TrimStr(v) ==
    CASE v = "  John Doe  " -> "John Doe"
      [] v = " Al " -> "Al"
      [] v = "Li " -> "Li"
      [] v = "  " -> ""
      [] OTHER -> v

\* contact.field?.trim() || null
TrimOrNull(v) ==
    IF v = Null THEN Null
    ELSE IF TrimStr(v) = "" THEN Null ELSE TrimStr(v)

\* the score of calculateConfidence, counted in half points
ConfidenceScore(contact) ==
    2
    + (IF TruthyStr(contact.displayName) THEN 4 ELSE 0)
    + (IF TruthyStr(contact.firstName) /\ TruthyStr(contact.lastName) THEN 4 ELSE 0)
    + (IF TruthyList(contact.phoneNumbers) /\ Len(contact.phoneNumbers) > 0 THEN 2 ELSE 0)
    + (IF TruthyList(contact.linkedInUrls) /\ Len(contact.linkedInUrls) > 0 THEN 2 ELSE 0)
    + (IF TruthyStr(contact.companyName) THEN 2 ELSE 0)
    + (IF TruthyStr(contact.jobTitle) THEN 2 ELSE 0)
    + (IF contact.source = "metadata" THEN 2
       ELSE IF contact.source = "signature" THEN 1 ELSE 0)

\* the tiers with strict comparisons
calculateConfidenceStrict(contact) ==
    IF ConfidenceScore(contact) > 14 THEN "high"
    ELSE IF ConfidenceScore(contact) > 8 THEN "medium"
    ELSE "low"

calculateConfidence(contact) ==
    IF ConfidenceScore(contact) >= 14 THEN "high"
    ELSE IF ConfidenceScore(contact) >= 8 THEN "medium"
    ELSE "low"

\* Array.isArray(contact.list) ? contact.list : (contact.single ? [contact.single] : [])
ListOrSingle(list, single) ==
    IF IsArray(list) THEN list
    ELSE IF TruthyStr(single) THEN <<single>> ELSE <<>>

\* the object literal of normalizeContact, before the tier is recomputed
NormalizedFields(contact, now) ==
    [ email                |-> Trim(ToLowerCase(contact.email)),
      displayName          |-> TrimOrNull(contact.displayName),
      firstName            |-> TrimOrNull(contact.firstName),
      lastName             |-> TrimOrNull(contact.lastName),
      phoneNumbers         |-> ListOrSingle(contact.phoneNumbers, contact.phoneNumber),
      linkedInUrls         |-> ListOrSingle(contact.linkedInUrls, contact.linkedInUrl),
      companyName          |-> TrimOrNull(contact.companyName),
      jobTitle             |-> TrimOrNull(contact.jobTitle),
      source               |-> IF TruthyStr(contact.source) THEN contact.source ELSE "unknown",
      isInOutlook          |-> contact.isInOutlook,
      firstSeenDate        |-> IF TruthyStr(contact.firstSeenDate)
                               THEN contact.firstSeenDate ELSE now,
      extractionConfidence |-> IF TruthyStr(contact.extractionConfidence)
                               THEN contact.extractionConfidence ELSE "low" ]

\* normalizeContact(contact) at the time now; the result is the empty list
\* for null and the one-element list of the contact otherwise
normalizeContact(contact, now) ==
    IF ~TruthyChars(contact.email) THEN <<>>
    ELSE LET normalized == NormalizedFields(contact, now)
         IN  IF ~TruthyStr(contact.extractionConfidence)
             THEN << [normalized EXCEPT
                        !.extractionConfidence = calculateConfidence(normalized)] >>
             ELSE <<normalized>>

-----------------------------------------------------------------------------
(* utils/csv-generator.js: a string is the sequence of its atoms, the comma, *)
(* the double quote and the newline each being an atom of their own          *)

\* Array.prototype.join
RECURSIVE JoinWith(_, _)
JoinWith(parts, separator) ==
    IF parts = <<>> THEN <<>>
    ELSE IF Len(parts) = 1 THEN parts[1]
    ELSE parts[1] \o <<separator>> \o JoinWith(Tail(parts), separator)

\* stringValue.replace(/"/g, '""')
RECURSIVE DoubleQuotes(_)
DoubleQuotes(stringValue) ==
    IF stringValue = <<>> THEN <<>>
    ELSE IF Head(stringValue) = "\""
         THEN <<"\"", "\"">> \o DoubleQuotes(Tail(stringValue))
         ELSE <<Head(stringValue)>> \o DoubleQuotes(Tail(stringValue))

\* String(value) of a boolean
BoolString(b) == IF b THEN <<"true">> ELSE <<"false">>

escapeCSVField(value) ==
    IF value = NullSeq THEN <<>>
    ELSE IF \E i \in 1..Len(value) : value[i] \in {",", "\"", "\n"}
         THEN <<"\"">> \o DoubleQuotes(value) \o <<"\"">>
         ELSE value

arrayToCSVString(arr) ==
    IF ~IsArray(arr) \/ Len(arr) = 0 THEN <<>>
    ELSE JoinWith(arr, ";")

\* const headers = [...]
CsvHeaders ==
    << <<"email">>, <<"displayName">>, <<"firstName">>, <<"lastName">>,
       <<"phoneNumbers">>, <<"linkedInUrls">>, <<"companyName">>, <<"jobTitle">>,
       <<"source">>, <<"isInOutlook">>, <<"firstSeenDate">>,
       <<"extractionConfidence">> >>

\* the row of one contact: const row = [...]; row.join(',')
CsvRow(contact) ==
    JoinWith(<< escapeCSVField(contact.email),
                escapeCSVField(contact.displayName),
                escapeCSVField(contact.firstName),
                escapeCSVField(contact.lastName),
                escapeCSVField(arrayToCSVString(contact.phoneNumbers)),
                escapeCSVField(arrayToCSVString(contact.linkedInUrls)),
                escapeCSVField(contact.companyName),
                escapeCSVField(contact.jobTitle),
                escapeCSVField(contact.source),
                escapeCSVField(BoolString(contact.isInOutlook)),
                escapeCSVField(contact.firstSeenDate),
                escapeCSVField(contact.extractionConfidence) >>, ",")

\* generateCSV ending the content with a newline
generateCSVTrailingNewline(list) ==
    IF Len(list) = 0 THEN <<>>
    ELSE JoinWith(<<JoinWith(CsvHeaders, ",")>>
                      \o [i \in 1..Len(list) |-> CsvRow(list[i])], "\n") \o <<"\n">>

generateCSV(list) ==
    IF Len(list) = 0 THEN <<>>
    ELSE JoinWith(<<JoinWith(CsvHeaders, ",")>>
                      \o [i \in 1..Len(list) |-> CsvRow(list[i])], "\n")

-----------------------------------------------------------------------------
(* utils/html-processor.js: the body text is the sequence of its characters; *)
(* positions count from 1, so 0 stands for the -1 of lastIndexOf             *)

\* const signatureMarkers = [...]
signatureMarkers ==
    << <<"B", "e", "s", "t", " ", "r", "e", "g", "a", "r", "d", "s">>,
       <<"R", "e", "g", "a", "r", "d", "s">>,
       <<"S", "i", "n", "c", "e", "r", "e", "l", "y">>,
       <<"T", "h", "a", "n", "k", "s">>,
       <<"C", "h", "e", "e", "r", "s">>,
       <<"B", "e", "s", "t">>,
       <<"T", "h", "a", "n", "k", " ", "y", "o", "u">>,
       <<"C", "o", "r", "d", "i", "a", "l", "e", "m", "e", "n", "t">>,
       <<"B", "i", "e", "n", " ", "c", "o", "r", "d", "i", "a", "l", "e", "m", "e", "n", "t">>,
       <<"S", "a", "l", "u", "t", "a", "t", "i", "o", "n", "s">>,
       <<"S", "a", "l", "u", "t", "a", "t", "i", "o", "n", "s", " ", "d", "i", "s", "t", "i", "n", "g", "u", "é", "e", "s">>,
       <<"R", "e", "s", "p", "e", "c", "t", "u", "e", "u", "s", "e", "m", "e", "n", "t">>,
       <<"A", "m", "i", "t", "i", "é", "s">>,
       <<"A", "m", "i", "c", "a", "l", "e", "m", "e", "n", "t">>,
       <<"B", "o", "n", "n", "e", " ", "j", "o", "u", "r", "n", "é", "e">>,
       <<"B", "o", "n", "n", "e", " ", "s", "o", "i", "r", "é", "e">>,
       <<"-", "-">>,
       <<"_", "_", "_">>,
       <<"S", "e", "n", "t", " ", "f", "r", "o", "m">>,
       <<"E", "n", "v", "o", "y", "é", " ", "d", "e", "p", "u", "i", "s">> >>

\* marker occurs in text at position i
MatchesAt(text, marker, i) ==
    /\ i + Len(marker) - 1 <= Len(text)
    /\ text[i] = marker[1]
    /\ SubSeq(text, i, i + Len(marker) - 1) = marker

\* String.prototype.indexOf in place of lastIndexOf
IndexOfFirst(text, marker) ==
    LET hits == {i \in 1..Len(text) : MatchesAt(text, marker, i)}
    IN  IF hits = {} THEN 0 ELSE CHOOSE i \in hits : \A j \in hits : i <= j

\* bodyText.lastIndexOf(marker)
LastIndexOf(text, marker) ==
    LET hits == {i \in 1..Len(text) : MatchesAt(text, marker, i)}
    IN  IF hits = {} THEN 0 ELSE CHOOSE i \in hits : \A j \in hits : i >= j

\* the signatureMarkers.forEach loop: lastMarkerIndex ends as the greatest of
\* the markers' last indexes, 0 when no marker occurs
LastMarkerIndex(text) ==
    LET indexes == {LastIndexOf(text, signatureMarkers[k]) :
                        k \in 1..Len(signatureMarkers)}
    IN  CHOOSE index \in indexes : \A other \in indexes : index >= other

\* String.prototype.split(separator)
RECURSIVE SplitOn(_, _)
SplitOn(text, separator) ==
    IF \A i \in 1..Len(text) : text[i] # separator THEN <<text>>
    ELSE LET first == CHOOSE i \in 1..Len(text) :
                          /\ text[i] = separator
                          /\ \A j \in 1..(i - 1) : text[j] # separator
         IN  <<SubSeq(text, 1, first - 1)>>
                 \o SplitOn(SubSeq(text, first + 1, Len(text)), separator)

\* lines.slice(-4).join('\n') when there are more than 3 lines, else null
LastLines(text) ==
    LET lines == SplitOn(text, "\n")
    IN  IF Len(lines) > 3
        THEN JoinWith(SubSeq(lines, Len(lines) - 3, Len(lines)), "\n")
        ELSE NullSeq

\* signature.length > 500 ? signature.substring(0, 500) : signature
SignatureLimit == 500

extractSignature(text) ==
    IF text = NullSeq \/ text = <<>> THEN NullSeq
    ELSE LET lastMarkerIndex == LastMarkerIndex(text)
         IN  IF lastMarkerIndex = 0 THEN LastLines(text)
             ELSE LET tail == SubSeq(text, lastMarkerIndex, Len(text))
                  IN  IF Len(tail) > SignatureLimit
                      THEN SubSeq(tail, 1, SignatureLimit)
                      ELSE tail

-----------------------------------------------------------------------------
(* utils/newsletter-detector.js: signal weights and the six scanners *)

NEWSLETTER_SIGNALS ==
    [ listUnsubscribe        |-> 25,
      bulkPrecedence         |-> 20,
      listId                 |-> 20,
      mailchimpHeader        |-> 25,
      noReplyAddress         |-> 15,
      infoAddress            |-> 10,
      automatedAddress       |-> 12,
      unsubscribeLink        |-> 20,
      viewInBrowser          |-> 15,
      updatePreferences      |-> 12,
      manageSubscription     |-> 10,
      highImageToTextRatio   |-> 10,
      multipleTrackingPixels |-> 8,
      tableBasedLayout       |-> 5,
      socialMediaFooter      |-> 8,
      bccRecipient           |-> 15,
      genericRecipient       |-> 10 ]

CACHE_MAX_SIZE == 1000

\* signals.push(tag) and score += weight, when the test holds
Push(test, tag) == IF test THEN <<tag>> ELSE <<>>
Add(test, weight) == IF test THEN weight ELSE 0

\* what a scanner hands back: its score, the tags it pushed, whether it threw
Scanned(score, signals) == [score |-> score, signals |-> signals, throws |-> FALSE]
Thrown == [score |-> 0, signals |-> <<>>, throws |-> TRUE]

Header(name, value) == [name |-> name, value |-> value]
\* a null element of the header list
NullHeader == Header("<null-entry>", "<null-entry>")
\* internetMessageHeaders absent, or not an array
NullHeaders == <<Header("<null-list>", "<null-list>")>>

\* h.name / h.value.toLowerCase() raises a TypeError
HeaderThrows(h) ==
    \/ h = NullHeader
    \/ /\ TruthyStr(h.name) /\ TruthyStr(h.value)
       /\ (h.name = NonString \/ h.value = NonString)

\* headerMap[key]: the lower-cased value of the last header of that
\* lower-cased name with a truthy name and value, or Null
HeaderMapGet(headers, key) ==
    LET hits == {i \in 1..Len(headers) :
                    /\ TruthyStr(headers[i].name) /\ TruthyStr(headers[i].value)
                    /\ LowerChar(headers[i].name) = key}
    IN  IF hits = {} THEN Null
        ELSE LowerChar(headers[CHOOSE i \in hits : \A j \in hits : j <= i].value)

\* a || b
OrElse(a, b) == IF TruthyStr(a) THEN a ELSE b

\* precedence.includes('bulk') || precedence.includes('list')
IncludesBulkOrList(v) == v \in {"bulk", "list", "bulk; list"}

\* espPatterns.test(mailer)
EspPatternsTest(v) ==
    v \in {"mailchimp mailer", "sendgrid", "phpmailer via mailgun", "brevo"}

checkHeaders(headers) ==
    IF headers = NullHeaders THEN Scanned(0, <<>>)
    ELSE IF \E i \in 1..Len(headers) : HeaderThrows(headers[i]) THEN Thrown
    ELSE
      LET precedence == OrElse(HeaderMapGet(headers, "precedence"), "")
          mailer == OrElse(HeaderMapGet(headers, "x-mailer"),
                      OrElse(HeaderMapGet(headers, "x-sender"),
                        OrElse(HeaderMapGet(headers, "x-campaign"), "")))
          t1 == TruthyStr(HeaderMapGet(headers, "list-unsubscribe"))
          t2 == IncludesBulkOrList(precedence)
          t3 == TruthyStr(HeaderMapGet(headers, "list-id"))
          t4 == EspPatternsTest(mailer)
      IN  Scanned(Add(t1, NEWSLETTER_SIGNALS.listUnsubscribe)
                    + Add(t2, NEWSLETTER_SIGNALS.bulkPrecedence)
                    + Add(t3, NEWSLETTER_SIGNALS.listId)
                    + Add(t4, NEWSLETTER_SIGNALS.mailchimpHeader),
                  Push(t1, "list-unsubscribe-header") \o Push(t2, "bulk-precedence")
                    \o Push(t3, "list-id-header") \o Push(t4, "esp-mailer"))

\* index of the first "@" of an atom string, 0 when there is none
RECURSIVE IndexOfAt(_, _)
IndexOfAt(s, from) ==
    IF from > Len(s) THEN 0
    ELSE IF s[from] = "@" THEN from ELSE IndexOfAt(s, from + 1)

\* the part of an address before its first "@" (what ^(...)@ can match)
LocalPart(s) ==
    IF IndexOfAt(s, 1) = 0 THEN NullSeq ELSE SubSeq(s, 1, IndexOfAt(s, 1) - 1)

\* /^(no-?reply|do-?not-?reply|noreply|ne-?pas-?repondre|nepasrepondre)@/i
NoReplyLocals ==
    { <<"noreply">>, <<"no-reply">>, <<"donotreply">>, <<"do-notreply">>,
      <<"donot-reply">>, <<"do-not-reply">>, <<"nepasrepondre">>,
      <<"ne-pasrepondre">>, <<"nepas-repondre">>, <<"ne-pas-repondre">> }
\* /^(info|newsletter|marketing|news|updates|notifications|lettre|actualit(é|e)s?|communication|diffusion|bulletin)@/i
MarketingLocals ==
    { <<"info">>, <<"newsletter">>, <<"marketing">>, <<"news">>, <<"updates">>,
      <<"notifications">>, <<"lettre">>, <<"actualite">>, <<"actualites">>,
      <<"actualité">>, <<"actualités">>, <<"communication">>, <<"diffusion">>,
      <<"bulletin">> }
\* /^(automated?|auto|notification|alerts?|system|automatique|alerte)@/i
AutomatedLocals ==
    { <<"automate">>, <<"automated">>, <<"auto">>, <<"notification">>, <<"alert">>,
      <<"alerts">>, <<"system">>, <<"automatique">>, <<"alerte">> }
\* /^(contact|service|support|accueil|equipe)@/i
GenericLocals ==
    { <<"contact">>, <<"service">>, <<"support">>, <<"accueil">>, <<"equipe">> }

checkSenderPatterns(address) ==
    IF ~TruthyChars(address) THEN Scanned(0, <<>>)
    ELSE IF address = NonStringSeq THEN Thrown
    ELSE
      LET local == LocalPart(ToLowerCase(address))
          t1 == local \in NoReplyLocals
          t2 == local \in MarketingLocals
          t3 == local \in AutomatedLocals
          t4 == local \in GenericLocals
      IN  Scanned(Add(t1, NEWSLETTER_SIGNALS.noReplyAddress)
                    + Add(t2, NEWSLETTER_SIGNALS.infoAddress)
                    + Add(t3, NEWSLETTER_SIGNALS.automatedAddress)
                    + Add(t4, 8),
                  Push(t1, "noreply-sender") \o Push(t2, "marketing-sender")
                    \o Push(t3, "automated-sender") \o Push(t4, "generic-french-sender"))

\* the body patterns of checkBodyContent, on lower-cased fragments
UnsubscribeTest(f) == f \in {"unsubscribe here", "se désabonner", "ne plus recevoir",
                             "unsubscribe policy"}
ViewInBrowserTest(f) == f \in {"view this email in your browser", "voir en ligne"}
UpdatePreferencesTest(f) == f \in {"update your preferences", "gérer vos préférences"}
ManageSubscriptionTest(f) == f \in {"manage your subscription", "gérer votre abonnement"}
FrenchPhraseTest(f) == f \in {"vous recevez ce message", "lettre d'information"}
EnglishPhraseTest(f) == f \in {"you are receiving this email", "mailing list"}
SocialFooterTest(f) == f \in {"follow us on twitter", "suivez-nous sur facebook"}
PrivacyFooterTest(f) == f \in {"mentions legales", "rgpd"}
PrivacyFooterEnTest(f) == f \in {"privacy policy", "gdpr", "unsubscribe policy"}
\* the tracking-pixel pattern, case-insensitive, on the fragments as written
TrackingPixelTest(f) == f \in {"<img width=1 height=1>", "<IMG WIDTH=1 HEIGHT=1>",
                               "<img height=\"1\" width=\"1\">"}

checkBodyContent(htmlContent) ==
    IF ~TruthyChars(htmlContent) THEN Scanned(0, <<>>)
    ELSE IF htmlContent = NonStringSeq THEN Thrown
    ELSE
      LET lowerContent == ToLowerCase(htmlContent)
          t1 == (\E f \in Range(lowerContent) : UnsubscribeTest(f))
          t2 == (\E f \in Range(lowerContent) : ViewInBrowserTest(f))
          t3 == (\E f \in Range(lowerContent) : UpdatePreferencesTest(f))
          t4 == (\E f \in Range(lowerContent) : ManageSubscriptionTest(f))
          t5 == (\E f \in Range(lowerContent) : FrenchPhraseTest(f))
          t6 == (\E f \in Range(lowerContent) : EnglishPhraseTest(f))
          trackingPixels == Cardinality({i \in 1..Len(htmlContent) : TrackingPixelTest(htmlContent[i])})
          t7 == trackingPixels >= 2
          t8 == (\E f \in Range(lowerContent) : SocialFooterTest(f))
          t9 == (\E f \in Range(lowerContent) : PrivacyFooterTest(f))
          t10 == (\E f \in Range(lowerContent) : PrivacyFooterEnTest(f))
      IN  Scanned(Add(t1, NEWSLETTER_SIGNALS.unsubscribeLink)
                    + Add(t2, NEWSLETTER_SIGNALS.viewInBrowser)
                    + Add(t3, NEWSLETTER_SIGNALS.updatePreferences)
                    + Add(t4, NEWSLETTER_SIGNALS.manageSubscription)
                    + Add(t5, 12) + Add(t6, 12)
                    + Add(t7, NEWSLETTER_SIGNALS.multipleTrackingPixels)
                    + Add(t8, NEWSLETTER_SIGNALS.socialMediaFooter)
                    + Add(t9, 5) + Add(t10, 5),
                  Push(t1, "unsubscribe-link") \o Push(t2, "view-in-browser")
                    \o Push(t3, "update-preferences") \o Push(t4, "manage-subscription")
                    \o Push(t5, "french-newsletter-phrase")
                    \o Push(t6, "english-newsletter-phrase")
                    \o Push(t7, "tracking-pixels") \o Push(t8, "social-footer")
                    \o Push(t9, "privacy-footer") \o Push(t10, "privacy-footer-en"))

\* a null element of the recipient list
NullRecipient == "<null-entry>"

\* genericPatterns.test(name), on lower-cased names
GenericPatternsTest(name) ==
    name \in {"valued customer", "dear subscriber", "cher client", "cher membre"}

\* r.emailAddress?.name?.toLowerCase() || ''
RecipientName(r) == IF TruthyStr(r) THEN LowerChar(r) ELSE ""

checkRecipientPatterns(toRecipients, bccRecipients) ==
    IF toRecipients = NonStringSeq THEN Thrown
    ELSE IF toRecipients # NullSeq
            /\ \E i \in 1..Len(toRecipients) :
                  toRecipients[i] \in {NullRecipient, NonString}
    THEN Thrown
    ELSE
      LET t1 == bccRecipients # NullSeq /\ Len(bccRecipients) > 0
          toNames == IF toRecipients = NullSeq THEN <<>>
                     ELSE [i \in 1..Len(toRecipients) |-> RecipientName(toRecipients[i])]
          t2 == \E i \in 1..Len(toNames) : GenericPatternsTest(toNames[i])
      IN  Scanned(Add(t1, NEWSLETTER_SIGNALS.bccRecipient)
                    + Add(t2, NEWSLETTER_SIGNALS.genericRecipient),
                  Push(t1, "bcc-recipient") \o Push(t2, "generic-recipient"))

\* /<table/gi and /<img/gi on the fragments as written
TableTest(f) == f \in {"<table>", "<TABLE>"}
ImgTest(f) == f \in {"<img src=logo.png>", "<img width=1 height=1>",
                     "<IMG WIDTH=1 HEIGHT=1>", "<img height=\"1\" width=\"1\">"}
\* length of a fragment once /<[^>]*>/g is replaced by ''
StrippedLength(f) ==
    IF TableTest(f) \/ ImgTest(f) \/ f \in {"<p>", "</p>"} THEN 0 ELSE Len(f)

RECURSIVE SumLengths(_)
SumLengths(content) ==
    IF content = <<>> THEN 0
    ELSE StrippedLength(Head(content)) + SumLengths(Tail(content))

Max(a, b) == IF a >= b THEN a ELSE b
Min(a, b) == IF a <= b THEN a ELSE b

checkEmailStructure(htmlContent) ==
    IF ~TruthyChars(htmlContent) THEN Scanned(0, <<>>)
    ELSE IF htmlContent = NonStringSeq THEN Thrown
    ELSE
      LET tableCount == Cardinality({i \in 1..Len(htmlContent) : TableTest(htmlContent[i])})
          imageCount == Cardinality({i \in 1..Len(htmlContent) : ImgTest(htmlContent[i])})
          textLength == SumLengths(htmlContent)
          t1 == tableCount > 5
          \* imageCount / Math.max(textLength / 100, 1) > 0.7
          t2 == /\ textLength > 0 /\ imageCount > 0
                /\ 1000 * imageCount > 7 * Max(textLength, 100)
      IN  Scanned(Add(t1, NEWSLETTER_SIGNALS.tableBasedLayout)
                    + Add(t2, NEWSLETTER_SIGNALS.highImageToTextRatio),
                  Push(t1, "table-layout") \o Push(t2, "high-image-ratio"))

\* the subject pattern of checkSubject, on lower-cased subjects
NewsletterSubjectTest(subject) ==
    subject \in {"weekly newsletter", "updates", "monthly digest", "actualités"}

checkSubject(subject) ==
    IF ~TruthyStr(subject) THEN Scanned(0, <<>>)
    ELSE IF subject = NonString THEN Thrown
    ELSE
      LET t1 == NewsletterSubjectTest(LowerChar(subject))
      IN  Scanned(Add(t1, 10), Push(t1, "newsletter-subject"))

-----------------------------------------------------------------------------
(* utils/newsletter-detector.js: detectNewsletter, applyWhitelistBlacklist *)

\* the fixed fail-safe result
DetectionError ==
    [ isNewsletter |-> FALSE,
      confidence   |-> 0,
      signals      |-> <<"detection-error">>,
      reason       |-> "detection-error" ]

\* `${value}` of a string-or-undefined field
Interpolate(v) == IF v = Null THEN "undefined" ELSE v

\* `${email.id}-${email.receivedDateTime}-${threshold}`
CacheKey(e, t) ==
    e.id \o "-" \o Interpolate(e.receivedDateTime) \o "-" \o ToString(t)

\* signals.slice(0, 3).join(', ') || 'no-signals'
RECURSIVE Join(_)
Join(tags) ==
    IF tags = <<>> THEN ""
    ELSE IF Len(tags) = 1 THEN tags[1]
    ELSE tags[1] \o ", " \o Join(Tail(tags))

Reason(signals) ==
    LET joined == Join(SubSeq(signals, 1, Min(3, Len(signals))))
    IN  IF joined = "" THEN "no-signals" ELSE joined

\* the six scanner calls of the try block, in call order
RunScanners(e) ==
    << checkHeaders(e.internetMessageHeaders),
       checkSenderPatterns(e.from),
       checkBodyContent(e.body),
       checkRecipientPatterns(e.toRecipients, e.bccRecipients),
       checkEmailStructure(e.body),
       checkSubject(e.subject) >>

\* the sum cut short at the first scanner that scores nothing
RECURSIVE SumScoresUntilZero(_)
SumScoresUntilZero(rs) ==
    IF rs = <<>> \/ Head(rs).score = 0 THEN 0
    ELSE Head(rs).score + SumScoresUntilZero(Tail(rs))

RECURSIVE SumScores(_)
SumScores(rs) == IF rs = <<>> THEN 0 ELSE Head(rs).score + SumScores(Tail(rs))

RECURSIVE AllSignals(_)
AllSignals(rs) == IF rs = <<>> THEN <<>> ELSE Head(rs).signals \o AllSignals(Tail(rs))

\* the decision with a strict comparison
IsNewsletterStrict(score, t) == score > t

\* isNewsletter: score >= threshold
IsNewsletter(score, t) == score >= t

\* the result object without the Math.min clamp
BuildResultUnclamped(score, signals, t) ==
    [ isNewsletter |-> IsNewsletter(score, t),
      confidence   |-> score,
      signals      |-> signals,
      reason       |-> Reason(signals) ]

\* the result object built after the scanners
BuildResult(score, signals, t) ==
    [ isNewsletter |-> IsNewsletter(score, t),
      confidence   |-> Min(score, 100),
      signals      |-> signals,
      reason       |-> Reason(signals) ]

\* the capacity test with a strict comparison
CacheFullOffByOne(cache) == Len(cache) > CACHE_MAX_SIZE

\* detectionCache.size >= CACHE_MAX_SIZE
CacheFull(cache) == Len(cache) >= CACHE_MAX_SIZE

\* the newest key evicted in place of the oldest
CacheStoreEvictNewest(cache, cacheKey, result) ==
    MapSet(IF CacheFull(cache) THEN SubSeq(cache, 1, Len(cache) - 1) ELSE cache,
           cacheKey, result)

\* evict the first key when full, then detectionCache.set(cacheKey, result)
CacheStore(cache, cacheKey, result) ==
    MapSet(IF CacheFull(cache) THEN Tail(cache) ELSE cache, cacheKey, result)

\* a lookup that never finds the key
CacheHitNever(cache, cacheKey) == FALSE

\* detectionCache.has(cacheKey)
CacheHit(cache, cacheKey) == MapHas(cache, cacheKey)

\* detectNewsletter without the guard on email.id
detectNewsletterNoIdCheck(e, t, cache) ==
    LET cacheKey == CacheKey(e, t) IN
    IF CacheHit(cache, cacheKey)
    THEN [result |-> MapGet(cache, cacheKey), cache |-> cache, scanned |-> FALSE]
    ELSE
      LET rs == RunScanners(e) IN
      IF \E i \in 1..Len(rs) : rs[i].throws
      THEN [result |-> DetectionError, cache |-> cache, scanned |-> TRUE]
      ELSE
        LET result == BuildResult(SumScores(rs), AllSignals(rs), t)
        IN  [result |-> result,
             cache  |-> CacheStore(cache, cacheKey, result),
             scanned |-> TRUE]

\* one call of detectNewsletter: its result, the cache it leaves, and whether
\* the scanners ran.  The function has no await, so a call runs to completion
\* before any other call on the event loop starts.
\* detectNewsletter with the fail-safe result of a scanner exception cached
detectNewsletterCachingErrors(e, t, cache) ==
    IF e.isNull \/ ~TruthyStr(e.id)
    THEN [result |-> DetectionError, cache |-> cache, scanned |-> FALSE]
    ELSE
      LET cacheKey == CacheKey(e, t) IN
      IF CacheHit(cache, cacheKey)
      THEN [result |-> MapGet(cache, cacheKey), cache |-> cache, scanned |-> FALSE]
      ELSE
        LET rs == RunScanners(e)
            result == IF \E i \in 1..Len(rs) : rs[i].throws
                      THEN DetectionError
                      ELSE BuildResult(SumScores(rs), AllSignals(rs), t)
        IN  [result |-> result,
             cache  |-> CacheStore(cache, cacheKey, result),
             scanned |-> TRUE]

detectNewsletter(e, t, cache) ==
    IF e.isNull \/ ~TruthyStr(e.id)
    THEN [result |-> DetectionError, cache |-> cache, scanned |-> FALSE]
    ELSE
      LET cacheKey == CacheKey(e, t) IN
      IF CacheHit(cache, cacheKey)
      THEN [result |-> MapGet(cache, cacheKey), cache |-> cache, scanned |-> FALSE]
      ELSE
        LET rs == RunScanners(e) IN
        IF \E i \in 1..Len(rs) : rs[i].throws
        THEN [result |-> DetectionError, cache |-> cache, scanned |-> TRUE]
        ELSE
          LET result == BuildResult(SumScores(rs), AllSignals(rs), t)
          IN  [result |-> result,
               cache  |-> CacheStore(cache, cacheKey, result),
               scanned |-> TRUE]

\* detectionCache.clear()
clearCache(cache) == <<>>

\* senderEmail.split('@')[1] || ''
SenderDomain(senderEmail) ==
    LET first == IndexOfAt(senderEmail, 1)
        next  == IF first = 0 THEN 0 ELSE IndexOfAt(senderEmail, first + 1)
    IN  IF first = 0 THEN <<>>
        ELSE IF next = 0 THEN SubSeq(senderEmail, first + 1, Len(senderEmail))
        ELSE SubSeq(senderEmail, first + 1, next - 1)

\* the list entries compared as written, without toLowerCase()
IncludesExact(list, value) == \E i \in 1..Len(list) : list[i] = value

\* list.map(x => x.toLowerCase()).includes(value)
IncludesLower(list, value) == \E i \in 1..Len(list) : ToLowerCase(list[i]) = value

\* the list consulted for domains only
ListedDomainsOnly(list, senderDomain, senderEmail) ==
    IncludesLower(list.domains, senderDomain)

\* (list.domains || []) includes the domain or (list.senders || []) the address
Listed(list, senderDomain, senderEmail) ==
    \/ IncludesLower(list.domains, senderDomain)
    \/ IncludesLower(list.senders, senderEmail)

\* new RegExp(pattern, 'i') does not raise a SyntaxError
RegExpValid(pattern) == pattern \notin {"(", "[a-"}

\* regex.test(senderEmail) for a valid pattern
RegExpTestSender(pattern, senderEmail) ==
    CASE pattern = "^promo@" -> LocalPart(senderEmail) = <<"promo">>
      [] pattern = "@spam\\.com$" ->
            /\ Len(senderEmail) >= 2
            /\ SubSeq(senderEmail, Len(senderEmail) - 1, Len(senderEmail))
                 = <<"@", "spam.com">>
      [] pattern = "bob" -> \E i \in 1..Len(senderEmail) : senderEmail[i] = "bob"
      [] OTHER -> FALSE

\* regex.test(subject) for a valid pattern, case-insensitive
RegExpTestSubject(pattern, subject) ==
    CASE pattern = "\\[PROMO\\]" -> subject \in {"[PROMO] Special Offer!", "[promo] last days"}
      [] pattern = "newsletter" -> subject \in {"Weekly Newsletter", "newsletter"}
      [] OTHER -> FALSE

\* the loop left at the first pattern that does not compile
SenderPatternMatchesAborting(patterns, senderEmail) ==
    \E i \in 1..Len(patterns) :
        /\ \A j \in 1..i : RegExpValid(patterns[j])
        /\ RegExpTestSender(patterns[i], senderEmail)

\* the for loop over a pattern list: some pattern compiles and matches
SenderPatternMatches(patterns, senderEmail) ==
    \E i \in 1..Len(patterns) :
        RegExpValid(patterns[i]) /\ RegExpTestSender(patterns[i], senderEmail)

SubjectPatternMatches(patterns, subject) ==
    \E i \in 1..Len(patterns) :
        RegExpValid(patterns[i]) /\ RegExpTestSubject(patterns[i], subject)

\* ...detection with the decision, the confidence and the tag replaced
Override(d, isNewsletter, confidence, tag) ==
    [ isNewsletter |-> isNewsletter,
      confidence   |-> confidence,
      signals      |-> Append(d.signals, tag),
      reason       |-> tag ]

\* the four blocks run one after the other, none of them returning early
applyWhitelistBlacklistEveryMatch(e, d, r) ==
    IF r.isNull \/ e.isNull \/ ~TruthyChars(e.from) THEN d
    ELSE
      LET senderEmail  == ToLowerCase(e.from)
          senderDomain == SenderDomain(senderEmail)
          subject      == IF TruthyStr(e.subject) THEN e.subject ELSE ""
          d1 == IF Listed(r.whitelist, senderDomain, senderEmail)
                THEN Override(d, FALSE, d.confidence, "whitelisted") ELSE d
          d2 == IF Listed(r.blacklist, senderDomain, senderEmail)
                THEN Override(d1, TRUE, 100, "blacklisted") ELSE d1
          d3 == IF SenderPatternMatches(r.customPatterns.senderPatterns, senderEmail)
                THEN Override(d2, TRUE, Max(d2.confidence, 75), "custom-sender-pattern")
                ELSE d2
      IN  IF SubjectPatternMatches(r.customPatterns.subjectPatterns, subject)
          THEN Override(d3, TRUE, Max(d3.confidence, 75), "custom-subject-pattern")
          ELSE d3

\* An absent whitelist, blacklist, customPatterns or list inside them is the
\* empty list: the code reads each through `|| []` or skips the block.
applyWhitelistBlacklist(e, d, r) ==
    IF r.isNull \/ e.isNull \/ ~TruthyChars(e.from) THEN d
    ELSE
      LET senderEmail  == ToLowerCase(e.from)
          senderDomain == SenderDomain(senderEmail)
          subject      == IF TruthyStr(e.subject) THEN e.subject ELSE ""
      IN  IF Listed(r.whitelist, senderDomain, senderEmail)
          THEN Override(d, FALSE, d.confidence, "whitelisted")
          ELSE IF Listed(r.blacklist, senderDomain, senderEmail)
          THEN Override(d, TRUE, 100, "blacklisted")
          ELSE IF SenderPatternMatches(r.customPatterns.senderPatterns, senderEmail)
          THEN Override(d, TRUE, Max(d.confidence, 75), "custom-sender-pattern")
          ELSE IF SubjectPatternMatches(r.customPatterns.subjectPatterns, subject)
          THEN Override(d, TRUE, Max(d.confidence, 75), "custom-subject-pattern")
          ELSE d

-----------------------------------------------------------------------------
(* utils/contact-parser.js and tools/email-contact-extractor.js: the contacts *)
(* of one message                                                            *)

\* parseDisplayName(displayName).firstName: the first word of the name
ParsedFirstName(name) ==
    CASE name = "John Doe" -> "John"
      [] name = "Valued Customer" -> "Valued"
      [] name = "Bob" -> "Bob"
      [] name = Null -> Null
      [] name = "" -> Null
      [] OTHER -> name

\* parseDisplayName(displayName).lastName: the words after the first
ParsedLastName(name) ==
    CASE name = "John Doe" -> "Doe"
      [] name = "Valued Customer" -> "Customer"
      [] OTHER -> Null

\* extractContactFromEmailAddress({name, address}), as a list of 0 or 1
extractContactFromEmailAddress(name, address) ==
    IF ~TruthyChars(address) THEN <<>>
    ELSE << [ email                |-> Trim(ToLowerCase(address)),
              displayName          |-> IF TruthyStr(name) THEN name ELSE Null,
              firstName            |-> ParsedFirstName(name),
              lastName             |-> ParsedLastName(name),
              phoneNumbers         |-> NullSeq,
              phoneNumber          |-> Null,
              linkedInUrls         |-> NullSeq,
              linkedInUrl          |-> Null,
              companyName          |-> Null,
              jobTitle             |-> Null,
              source               |-> "metadata",
              isInOutlook          |-> FALSE,
              firstSeenDate        |-> Null,
              extractionConfidence |-> Null ] >>

\* the emailAddress objects of from, toRecipients and ccRecipients, in order
MetadataContacts(e) ==
    <<[name |-> e.fromName, address |-> e.from]>>
    \o (IF IsArray(e.toRecipients) /\ e.toRecipients # NonStringSeq
        THEN [i \in 1..Len(e.toRecipients) |->
                 [name |-> e.toRecipients[i], address |-> e.toAddresses[i]]]
        ELSE <<>>)
    \o e.ccRecipients

\* emailRegex matches of the plain text of a body, filtered and lower-cased
extractEmails(body) ==
    IF body = <<"<p>", "bob@Company.com", "</p>">>
    THEN << <<"bob", "@", "company.com">> >>
    ELSE <<>>

\* the contact built from an address found in the full body text
BodyContact(address) ==
    [ email                |-> address,
      displayName          |-> Null,
      firstName            |-> Null,
      lastName             |-> Null,
      phoneNumbers         |-> <<>>,
      phoneNumber          |-> Null,
      linkedInUrls         |-> <<>>,
      linkedInUrl          |-> Null,
      companyName          |-> Null,
      jobTitle             |-> Null,
      source               |-> "body",
      isInOutlook          |-> FALSE,
      firstSeenDate        |-> Null,
      extractionConfidence |-> "low" ]

\* a forEach over found contacts: those not in seenEmails are stamped and kept
RECURSIVE KeepUnseen(_, _, _, _)
KeepUnseen(found, kept, date, tier) ==
    IF found = <<>> THEN kept
    ELSE LET contact == Head(found)
         IN  IF TruthyChars(contact.email)
                /\ \A i \in 1..Len(kept) : kept[i].email # contact.email
             THEN KeepUnseen(Tail(found),
                             Append(kept, [contact EXCEPT !.firstSeenDate = date,
                                                          !.extractionConfidence = tier]),
                             date, tier)
             ELSE KeepUnseen(Tail(found), kept, date, tier)

RECURSIVE FlattenLists(_)
FlattenLists(lists) ==
    IF lists = <<>> THEN <<>> ELSE Head(lists) \o FlattenLists(Tail(lists))

\* extractContactsFromEmail raises a TypeError: the message is null, a
\* recipient entry is null, a name or an address with an address is not a
\* string, or the body content read is not a string
ExtractRaises(e, includeBody) ==
    \/ e.isNull
    \/ e.from = NonStringSeq
    \/ /\ IsArray(e.toRecipients)
       /\ e.toRecipients # NonStringSeq
       /\ \E i \in 1..Len(e.toRecipients) :
             \/ e.toRecipients[i] = NullRecipient
             \/ e.toAddresses[i] = NonStringSeq
             \/ e.toRecipients[i] = NonString /\ TruthyChars(e.toAddresses[i])
    \/ includeBody /\ e.body = NonStringSeq

\* the recipients on which extractContactFromEmailAddress raises
RaisingRecipients(e) ==
    IF IsArray(e.toRecipients) /\ e.toRecipients # NonStringSeq
    THEN {i \in 1..Len(e.toRecipients) :
            \/ e.toAddresses[i] = NonStringSeq
            \/ e.toRecipients[i] = NonString /\ TruthyChars(e.toAddresses[i])}
    ELSE {}

\* error.message of the TypeError extractContactsFromEmail raises: reading
\* email.from of null, recipient.emailAddress of a null recipient while the
\* addresses are collected, then, address by address, displayName.trim() of
\* parseDisplayName and emailAddress.address.toLowerCase(), and at last
\* html.replace() of stripHtml
ExtractRaiseMessage(e, includeBody) ==
    IF e.isNull THEN "Cannot read properties of null (reading 'from')"
    ELSE IF /\ IsArray(e.toRecipients) /\ e.toRecipients # NonStringSeq
            /\ \E i \in 1..Len(e.toRecipients) : e.toRecipients[i] = NullRecipient
    THEN "Cannot read properties of null (reading 'emailAddress')"
    ELSE IF e.from = NonStringSeq
    THEN "emailAddress.address.toLowerCase is not a function"
    ELSE IF RaisingRecipients(e) # {}
    THEN LET first == CHOOSE i \in RaisingRecipients(e) :
                          \A j \in RaisingRecipients(e) : i <= j
         IN  IF e.toRecipients[first] = NonString
             THEN "displayName.trim is not a function"
             ELSE "emailAddress.address.toLowerCase is not a function"
    ELSE "html.replace is not a function"

\* error.message of the first message of the list the extraction raises on
FirstRaiseMessage(list, includeBody) ==
    LET raising == {i \in 1..Len(list) : ExtractRaises(list[i], includeBody)}
        first   == CHOOSE i \in raising : \A j \in raising : i <= j
    IN  ExtractRaiseMessage(list[first], includeBody)

\* extractContactsFromEmail(email, includeBody) for a message it does not
\* raise on; the bodies explored have no signature block
extractContactsFromEmail(e, includeBody, now) ==
    LET date     == IF TruthyStr(e.receivedDateTime) THEN e.receivedDateTime ELSE now
        entries  == MetadataContacts(e)
        metadata == FlattenLists([i \in 1..Len(entries) |->
                        extractContactFromEmailAddress(entries[i].name,
                                                       entries[i].address)])
        fromMetadata == KeepUnseen(metadata, <<>>, date, "high")
        found    == extractEmails(e.body)
    IN  IF includeBody /\ TruthyList(e.body) /\ e.body # <<>>
        THEN KeepUnseen([i \in 1..Len(found) |-> BodyContact(found[i])],
                        fromMetadata, date, "low")
        ELSE fromMetadata

\* the for loop of lines 389-408 from the message k on: the messages kept,
\* the cache, and whether applyWhitelistBlacklist raised
RECURSIVE FilterNewsletters(_, _, _, _, _, _)
FilterNewsletters(list, k, t, r, cache, kept) ==
    IF k > Len(list) THEN [raised |-> FALSE, kept |-> kept, cache |-> cache]
    ELSE LET d == detectNewsletter(list[k], t, cache)
         IN  IF ~r.isNull /\ ~list[k].isNull /\ list[k].from = NonStringSeq
             THEN [raised |-> TRUE, kept |-> kept, cache |-> d.cache]
             ELSE IF applyWhitelistBlacklist(list[k], d.result, r).isNewsletter
             THEN FilterNewsletters(list, k + 1, t, r, d.cache, kept)
             ELSE FilterNewsletters(list, k + 1, t, r, d.cache, Append(kept, list[k]))

\* lines 414-433: extract from every message, normalize, deduplicate
ContactsOf(processedEmails, includeBody, now) ==
    LET allContacts == FlattenLists([i \in 1..Len(processedEmails) |->
                          extractContactsFromEmail(processedEmails[i], includeBody, now)])
    IN  deduplicateContacts(FlattenLists([i \in 1..Len(allContacts) |->
                                            normalizeContact(allContacts[i], now)]))

-----------------------------------------------------------------------------
(* utils/graph-api.js: callGraphAPI.  A queryParams object is the sequence   *)
(* of its entries in insertion order; a query string is the sequence of its  *)
(* parameters, each with the encoder that wrote it                           *)

RETRY_CONFIG ==
    [ maxRetries         |-> 3,
      retryDelay         |-> 1000,
      retryableErrors    |-> {429, 503, 504},
      exponentialBackoff |-> TRUE ]

Param(key, value) == [key |-> key, value |-> value]

\* queryParams.$filter, Null when the key is absent
FilterOf(params) ==
    IF \E i \in 1..Len(params) : params[i].key = "$filter"
    THEN (CHOOSE q \in {params[i] : i \in 1..Len(params)} : q.key = "$filter").value
    ELSE Null

\* delete queryParams.$filter
DeleteFilter(params) == SelectSeq(params, LAMBDA q : q.key # "$filter")

\* the caller's object after lines 69-74
ParamsAfterBuild(params) ==
    IF Len(params) > 0 /\ TruthyStr(FilterOf(params)) THEN DeleteFilter(params) ELSE params

\* the query string of lines 68-98
QueryString(params) ==
    IF Len(params) = 0 THEN <<>>
    ELSE LET filter  == FilterOf(params)
             regular == ParamsAfterBuild(params)
         IN  [i \in 1..Len(regular) |->
                 [key |-> regular[i].key, value |-> regular[i].value,
                  encoder |-> "URLSearchParams"]]
             \o (IF TruthyStr(filter)
                 THEN <<[key |-> "$filter", value |-> filter,
                         encoder |-> "encodeURIComponent"]>>
                 ELSE <<>>)

\* the path with the segments that need it percent-encoded
EncodedPath(path) ==
    CASE path = "me/mailFolders/My Folder/messages" -> "me/mailFolders/My%20Folder/messages"
      [] OTHER -> path

\* the retry test with the count compared inclusively
ShouldRetryOnceMore(status, count) ==
    status \in RETRY_CONFIG.retryableErrors /\ count <= RETRY_CONFIG.maxRetries

\* shouldRetry of lines 145-146
ShouldRetry(status, count) ==
    status \in RETRY_CONFIG.retryableErrors /\ count < RETRY_CONFIG.maxRetries

\* retryDelay * Math.pow(2, retryCount)
RetryDelay(count) ==
    IF RETRY_CONFIG.exponentialBackoff
    THEN RETRY_CONFIG.retryDelay * 2 ^ count
    ELSE RETRY_CONFIG.retryDelay

-----------------------------------------------------------------------------
(* Inputs of the deduplicator *)

Contact(address, source, displayName, phoneNumbers, extractionConfidence, firstSeenDate) ==
    [ email                |-> address,
      displayName          |-> displayName,
      firstName            |-> Null,
      lastName             |-> Null,
      phoneNumbers         |-> phoneNumbers,
      linkedInUrls         |-> NullSeq,
      companyName          |-> Null,
      jobTitle             |-> Null,
      source               |-> source,
      isInOutlook          |-> FALSE,
      firstSeenDate        |-> firstSeenDate,
      extractionConfidence |-> extractionConfidence ]

\* contacts of several identities, some written with other case or padding,
\* some without an email
DedupPool ==
    { Contact(<<"a">>, "metadata", "x", NullSeq, Null, Null),
      Contact(<<"A">>, "body", "y", <<"1">>, Null, Null),
      Contact(<<" ", "a", " ">>, "signature", Null, <<"2">>, Null, Null),
      Contact(<<"b">>, "body", "x", <<"1">>, Null, Null),
      Contact(<<"B", " ">>, "metadata", "y", <<>>, Null, Null),
      Contact(<<"a", "b">>, "body", Null, NullSeq, Null, Null),
      Contact(<<" ">>, "body", "x", NullSeq, Null, Null),
      Contact(NullSeq, "body", "x", <<"1">>, Null, Null),
      Contact(<<>>, "metadata", "y", NullSeq, Null, Null) }

\* sightings of the one identity "a"
SightingPool ==
    { Contact(<<"a">>, s, n, NullSeq, Null, Null) :
          s \in {"body", "signature", "metadata"}, n \in {Null, "x", "y"} }
    \cup
    { Contact(<<"a">>, "body", Null, <<"1">>, "high", "2024-01-02T00:00:00Z"),
      Contact(<<"a">>, "metadata", Null, <<"2", "1">>, "low", "2024-01-01T00:00:00Z"),
      Contact(<<"A">>, "signature", "x", <<>>, "medium", Null) }

\* the arguments of one mergeContacts call: every source, names absent, empty
\* or present, lists, tiers and dates absent or present
PairPool ==
    { Contact(<<"a">>, s, n, d[1], d[2], d[3]) :
          s \in {"metadata", "signature", "body", "unknown"},
          n \in {Null, "x", "y"},
          d \in { <<NullSeq, Null, Null>>,
                  <<<<"1">>, "low", "2024-01-02T00:00:00Z">>,
                  <<<<"2", "1">>, "high", "2024-01-01T00:00:00Z">> } }
    \cup
    { [Contact(<<"A">>, "body", "", <<>>, "medium", "2024-01-03T00:00:00Z")
          EXCEPT !.isInOutlook = TRUE, !.companyName = "ACME", !.firstName = "Al"],
      [Contact(<<"a">>, "signature", "x", NullSeq, "medium", Null)
          EXCEPT !.companyName = "Initech", !.jobTitle = "CEO", !.linkedInUrls = <<"u">>],
      [Contact(<<"a">>, "metadata", "y", <<"1">>, "low", Null)
          EXCEPT !.firstName = "Bo", !.lastName = "Li", !.linkedInUrls = <<>>],
      Contact(<<"A">>, "unknown", "z", NullSeq, Null, Null) }

\* a raw contact: the contact fields and the legacy singular fields
RawContact(address, displayName, names, phones, urls, company, source, tier) ==
    [ email                |-> address,
      displayName          |-> displayName,
      firstName            |-> names[1],
      lastName             |-> names[2],
      phoneNumbers         |-> phones[1],
      phoneNumber          |-> phones[2],
      linkedInUrls         |-> urls[1],
      linkedInUrl          |-> urls[2],
      companyName          |-> company[1],
      jobTitle             |-> company[2],
      source               |-> source,
      isInOutlook          |-> FALSE,
      firstSeenDate        |-> tier[2],
      extractionConfidence |-> tier[1] ]

RawPool ==
    { RawContact(a, n, fl, p, u, c, s, t) :
        a  \in {NullSeq, <<>>, <<" ">>, <<"A">>, <<" ", "a", "B", " ">>},
        n  \in {Null, "  John Doe  ", "  "},
        fl \in {<<Null, Null>>, <<" Al ", "Li ">>},
        p  \in {<<NullSeq, Null>>, <<NullSeq, "555-1234">>, <<<<>>, "555-1234">>,
                <<<<"1", "2">>, Null>>},
        u  \in {<<NullSeq, Null>>, <<NullSeq, "u">>, <<<<"v">>, "u">>},
        c  \in {<<Null, Null>>, <<"ACME", Null>>, <<"ACME", "CEO">>},
        s  \in {Null, "metadata", "signature"},
        t  \in {<<Null, Null>>, <<"", "2024-01-01T00:00:00Z">>,
                <<"medium", "2024-01-02T00:00:00Z">>} }

\* new Date().toISOString() at the time of the call
NowPool == {"2024-01-03T00:00:00Z"}

\* a contact as generateCSV reads it: every text field a string of atoms
CsvContact(address, displayName, phoneNumbers, jobTitle, isInOutlook) ==
    [ email                |-> address,
      displayName          |-> displayName,
      firstName            |-> NullSeq,
      lastName             |-> NullSeq,
      phoneNumbers         |-> phoneNumbers,
      linkedInUrls         |-> <<>>,
      companyName          |-> NullSeq,
      jobTitle             |-> jobTitle,
      source               |-> <<"metadata">>,
      isInOutlook          |-> isInOutlook,
      firstSeenDate        |-> <<"2025-01-01">>,
      extractionConfidence |-> <<"high">> ]

\* contacts with plain fields, with a comma, with quotes, with a newline in a
\* field or in a list element, and with an empty email
CsvPool ==
    { CsvContact(<<"john@example.com">>, <<"John">>, <<>>, NullSeq, FALSE),
      CsvContact(<<"jane@example.com">>, <<"Doe", ",", " ", "John">>,
                 << <<"555-1234">>, <<"555-5678">> >>, <<"CEO">>, TRUE),
      CsvContact(<<"a@x.com">>, <<"Say", " ", "\"", "Hello", "\"">>, NullSeq,
                 NullSeq, FALSE),
      CsvContact(<<"b@x.com">>, <<"Bo">>, << <<"1">> >>,
                 <<"CEO", "\n", "ACME", "\n", "Paris">>, FALSE),
      CsvContact(<<"c@x.com">>, NullSeq, << <<"1", "\n", "2">>, <<"3">> >>,
                 NullSeq, TRUE),
      CsvContact(<<>>, <<>>, <<>>, <<>>, FALSE) }

\* Longest contact list given to generateCSV
MaxRows == 3

\* the pieces a body text is made of
BodyPieces ==
    { <<>>,
      <<"H", "i", " ", "B", "o", "b", ",", "\n">>,
      <<"B", "e", "s", "t", " ", "r", "e", "g", "a", "r", "d", "s", ",", "\n">>,
      <<"T", "h", "a", "n", "k", "s", "\n">>,
      <<"B", "i", "e", "n", " ", "c", "o", "r", "d", "i", "a", "l", "e", "m", "e", "n", "t", "\n">>,
      <<"-", "-", "\n">>,
      <<"r", "e", "g", "a", "r", "d", "s", " ", "f", "r", "o", "m", " ", "A", "l", "\n">> }

\* n characters of running text
Filler(n) == [i \in 1..n |-> "x"]

\* the lengths of the text after the last piece
FillerLengths == {0, 486, 487, 494, 600}

\* the body texts: the empty text, texts of lines without a marker, and three
\* pieces followed by running text
BodyPool ==
    { <<"L", "i", "n", "e", " ", "1", "\n", "L", "i", "n", "e", " ", "2", "\n", "L", "i", "n", "e", " ", "3", "\n", "L", "i", "n", "e", " ", "4", "\n", "L", "i", "n", "e", " ", "5">>,
      <<"J", "u", "s", "t", " ", "a", " ", "s", "i", "m", "p", "l", "e", " ", "e", "m", "a", "i", "l">> }
    \cup
    { a \o b \o c \o Filler(n) :
        a \in BodyPieces, b \in BodyPieces, c \in BodyPieces, n \in FillerLengths }

-----------------------------------------------------------------------------
(* Inputs of the detector *)

Message(id, headers, from, body, subject, toRecipients, bccRecipients) ==
    [ isNull                 |-> FALSE,
      id                     |-> id,
      receivedDateTime       |-> "t1",
      internetMessageHeaders |-> headers,
      from                   |-> from,
      body                   |-> body,
      subject                |-> subject,
      toRecipients           |-> toRecipients,
      bccRecipients          |-> bccRecipients,
      fromName               |-> Null,
      toAddresses            |-> [i \in 1..Len(toRecipients) |-> NullSeq],
      ccRecipients           |-> <<>> ]

\* a message with the sender's name and the recipients' addresses: the
\* recipient i has the name toRecipients[i] and the address toAddresses[i]
MailMessage(id, headers, fromName, from, toRecipients, toAddresses, body) ==
    [Message(id, headers, from, body, "Re: Project", toRecipients, <<>>)
        EXCEPT !.fromName = fromName, !.toAddresses = toAddresses]

\* the arguments of the tool that the run reads
Args(maxEmails, includeBody, excludeNewsletters) ==
    [ maxEmails           |-> maxEmails,
      includeBody         |-> includeBody,
      excludeNewsletters  |-> excludeNewsletters,
      newsletterThreshold |-> 60 ]

\* the message null
NullMessage ==
    [Message(Null, NullHeaders, NullSeq, NullSeq, Null, NullSeq, NullSeq)
        EXCEPT !.isNull = TRUE, !.receivedDateTime = Null]

PersonalHeaders == <<Header("From", "bob@trusted.com")>>
ListHeaders == <<Header("List-Unsubscribe", "<mailto:unsub@x.com>")>>
BulkHeaders ==
    << Header("List-Unsubscribe", "<mailto:unsub@x.com>"),
       Header("Precedence", "Bulk"),
       Header("List-ID", "news.example.com"),
       Header("X-Mailer", "MailChimp Mailer") >>

PersonalBody == <<"<p>", "Hi John, here is the update.", "</p>">>
NewsletterBody ==
    << "<TABLE>", "<table>", "<table>", "<table>", "<table>", "<table>",
       "<img src=logo.png>", "View this email in your browser",
       "Update your preferences", "Manage your subscription",
       "Vous recevez ce message", "You are receiving this email",
       "<IMG WIDTH=1 HEIGHT=1>", "<img width=1 height=1>",
       "Follow us on Twitter", "Mentions legales", "Privacy Policy",
       "Unsubscribe here" >>

Senders ==
    { NullSeq,
      <<"NoReply", "@", "Spam.com">>,
      <<"Bob", "@", "Trusted.COM">>,
      <<"promo", "@", "example.com">>,
      <<"info", "@", "trusted.com">> }

WellFormedMessages ==
    { Message("m1", h, f, b, s, r[1], r[2]) :
        h \in {NullHeaders, ListHeaders, BulkHeaders},
        f \in Senders,
        b \in {PersonalBody, NewsletterBody},
        s \in {Null, "Weekly Newsletter", "[PROMO] Special Offer!"},
        r \in {<< <<"John Doe">>, <<>> >>, << <<"Valued Customer">>, <<"x">> >>} }

\* messages without an identifier, and messages on which a scanner raises
MalformedMessages ==
    { NullMessage,
      Message(Null, BulkHeaders, <<"NoReply", "@", "Spam.com">>, NewsletterBody,
              "Weekly Newsletter", <<>>, <<>>),
      Message("", ListHeaders, <<"Bob", "@", "Trusted.COM">>, PersonalBody, Null,
              <<>>, <<>>),
      Message("m1", <<Header("From", "bob@trusted.com"), NullHeader>>,
              <<"Bob", "@", "Trusted.COM">>, PersonalBody, Null, <<>>, <<>>),
      Message("m1", <<Header("List-ID", NonString)>>, NullSeq, NullSeq, Null,
              <<>>, <<>>),
      Message("m1", BulkHeaders, NonStringSeq, NewsletterBody, "Weekly Newsletter",
              <<>>, <<>>),
      Message("m1", BulkHeaders, <<"NoReply", "@", "Spam.com">>, NonStringSeq,
              "Weekly Newsletter", <<>>, <<>>),
      Message("m1", BulkHeaders, <<"NoReply", "@", "Spam.com">>, NewsletterBody,
              NonString, <<>>, <<>>),
      Message("m1", ListHeaders, <<"info", "@", "trusted.com">>, PersonalBody,
              "Weekly Newsletter", <<"John Doe", NullRecipient>>, <<"x">>),
      Message("m1", ListHeaders, <<"info", "@", "trusted.com">>, PersonalBody,
              "Weekly Newsletter", NonStringSeq, <<>>) }

DetectPool == WellFormedMessages \cup MalformedMessages

Thresholds == {0, 60, 100, 101}

Rules(whitelist, blacklist, customPatterns) ==
    [ isNull         |-> FALSE,
      whitelist      |-> whitelist,
      blacklist      |-> blacklist,
      customPatterns |-> customPatterns ]

SenderList(domains, senders) == [domains |-> domains, senders |-> senders]
Patterns(senderPatterns, subjectPatterns) ==
    [senderPatterns |-> senderPatterns, subjectPatterns |-> subjectPatterns]

\* rules === null
NullRules ==
    [Rules(SenderList(<<>>, <<>>), SenderList(<<>>, <<>>), Patterns(<<>>, <<>>))
        EXCEPT !.isNull = TRUE]

RulesPool ==
    { Rules(w, b, p) :
        w \in { SenderList(<<>>, <<>>),
                SenderList(<< <<"Trusted.COM">> >>, <<>>),
                SenderList(<< <<"spam.com">> >>, <<>>),
                SenderList(<<>>, << <<"Promo", "@", "example.com">> >>) },
        b \in { SenderList(<<>>, <<>>),
                SenderList(<< <<"Spam.com">>, <<"example.com">> >>, <<>>),
                SenderList(<<>>, << <<"bob", "@", "trusted.com">> >>) },
        p \in { Patterns(<<>>, <<>>),
                Patterns(<<"(", "^promo@">>, <<>>),
                Patterns(<<"bob">>, <<"[a-", "\\[PROMO\\]">>) } }
    \cup {NullRules}

-----------------------------------------------------------------------------
(* Inputs of the extraction run *)

\* the largest maxEmails explored
MaxEmails == 3

Alice == <<"promo", "@", "example.com">>
BobAddress == <<"Bob", "@", "Trusted.COM">>
BodyWithAddress == <<"<p>", "bob@Company.com", "</p>">>

\* two personal messages sharing the contact bob@trusted.com, one newsletter
PersonalA ==
    MailMessage("a", PersonalHeaders, "Bob", BobAddress,
                <<"John Doe">>, <<Alice>>, PersonalBody)
PersonalB ==
    MailMessage("b", PersonalHeaders, Null, <<"info", "@", "trusted.com">>,
                <<"Bob">>, << <<"bob", "@", "trusted.com">> >>, BodyWithAddress)
Newsletter ==
    MailMessage("n", BulkHeaders, Null, <<"NoReply", "@", "Spam.com">>,
                <<"Valued Customer">>, <<Alice>>, NewsletterBody)

\* {toRecipients: [null]}: extraction reads recipient.emailAddress of null
NullRecipientMessage ==
    MailMessage("x", PersonalHeaders, "Bob", BobAddress,
                <<NullRecipient>>, <<NullSeq>>, PersonalBody)
\* {from: {emailAddress: {address: 42}}}: toLowerCase is not a function
NonStringSenderMessage ==
    MailMessage("y", PersonalHeaders, Null, NonStringSeq,
                <<"John Doe">>, <<Alice>>, PersonalBody)

\* a response of callGraphAPI to a page request
Page(value, nextLink) == [kind |-> "page", value |-> value, nextLink |-> nextLink]
\* a request that is not answered yet
PendingPage == [kind |-> "pending", value |-> <<>>, nextLink |-> FALSE]
\* callGraphAPI rejects
FailedPage == [kind |-> "error", value |-> <<>>, nextLink |-> FALSE]

PagePool ==
    { Page(v, n) : v \in { <<PersonalA>>, <<PersonalB, Newsletter>>,
                           <<NullRecipientMessage>>,
                           <<PersonalB, NonStringSenderMessage>> },
                   n \in BOOLEAN }
    \cup {Page(<<>>, FALSE), FailedPage}

ArgsPool ==
    { Args(m, b, x) : m \in {0, MaxEmails - 1, MaxEmails}, b \in BOOLEAN, x \in BOOLEAN }

\* newsletter_rules.json: absent, or a blacklist of example.com
RunRulesPool ==
    { NullRules,
      Rules(SenderList(<<>>, <<>>),
            SenderList(<< <<"example.com">> >>, <<>>),
            Patterns(<<>>, <<>>)) }

\* the answers to a request for a page of Outlook contacts: the addresses
\* of the contacts of the page and whether it has a next link
OutlookPagePool ==
    { Page(v, n) : v \in { << <<"Bob", "@", "Trusted.COM">> >>,
                           << <<"a", "@", "spam.com">>, <<" ", "bob", "@", "trusted.com">> >> },
                   n \in BOOLEAN }
    \cup {Page(<<>>, FALSE), FailedPage}

-----------------------------------------------------------------------------
(* Idle values of the state a driver does not use *)

NoOut == [deduplicated |-> <<>>, duplicatesRemoved |-> -1]

\* cachedTokens === null, or a token file without an access_token
NoTokens == [access_token |-> Null]
\* no direct call of loadTokenCache, saveTokenCache or createTestTokens yet
NoCacheCall == [name |-> "none", returns |-> "<none>"]

\* no invocation of callGraphAPI
NoCall == [testMode |-> FALSE, method |-> "<none>", path |-> "<none>", queryParams |-> <<>>]

\* no tool response yet
NoResponse == [isError |-> FALSE, text |-> "<none>"]

NoDetection ==
    [isNewsletter |-> FALSE, confidence |-> 0, signals |-> <<>>, reason |-> "<none>"]

DedupIdle ==
    /\ contacts = <<>>
    /\ permuted = <<>>
    /\ out = NoOut
    /\ outPerm = NoOut
    /\ outTwice = NoOut
    /\ dpc = "idle"

DetectorIdle ==
    /\ detectionCache = <<>>
    /\ email = NullMessage
    /\ threshold = 60
    /\ rules = NullRules
    /\ detection = NoDetection
    /\ scanned = FALSE
    /\ finalDetection = NoDetection
    /\ npc = "idle"

PairIdle ==
    /\ existing = Contact(NullSeq, Null, Null, NullSeq, Null, Null)
    /\ incoming = Contact(NullSeq, Null, Null, NullSeq, Null, Null)
    /\ merged = Contact(NullSeq, Null, Null, NullSeq, Null, Null)
    /\ mpc = "idle"

NormalizerIdle ==
    /\ raw = RawContact(NullSeq, Null, <<Null, Null>>, <<NullSeq, Null>>,
                        <<NullSeq, Null>>, <<Null, Null>>, Null, <<Null, Null>>)
    /\ normalizedContact = <<>>
    /\ zpc = "idle"

ExportIdle ==
    /\ rows = <<>>
    /\ csv = <<>>
    /\ cpc = "idle"

SignatureIdle ==
    /\ bodyText = <<>>
    /\ signature = <<>>
    /\ gpc = "idle"

RunIdle ==
    /\ mailbox = <<>>
    /\ args = Args(0, FALSE, FALSE)
    /\ emails = <<>>
    /\ unique = NoOut
    /\ exported = <<>>
    /\ response = NoResponse
    /\ rpc = "idle"
    /\ cursor = 0
    /\ emailsToProcess = <<>>
    /\ outlookEmails = {}

TokensIdle ==
    /\ cachedTokens = NoTokens
    /\ refreshPromise = 0
    /\ refreshes = <<>>
    /\ callers = <<>>
    /\ tokenFile = NoTokens
    /\ cacheCall = NoCacheCall

\* every driver but the deduplicator's and the detector's is idle
GraphIdle ==
    /\ request = NoCall
    /\ queryParams = <<>>
    /\ attempts = <<>>
    /\ retryCount = 0
    /\ promise = "pending"
    /\ kpc = "idle"

OthersIdle ==
    /\ PairIdle
    /\ NormalizerIdle
    /\ ExportIdle
    /\ SignatureIdle
    /\ RunIdle
    /\ TokensIdle
    /\ GraphIdle

-----------------------------------------------------------------------------
(* Driver of the deduplicator: deduplicate a list, then its output again *)

DedupInit ==
    /\ contacts \in SeqsUpTo(DedupPool, MaxLen)
    /\ permuted = contacts
    /\ out = NoOut
    /\ outPerm = NoOut
    /\ outTwice = NoOut
    /\ dpc = "start"
    /\ DetectorIdle
    /\ OthersIdle

Deduplicate ==
    /\ dpc = "start"
    /\ out' = deduplicateContacts(contacts)
    /\ dpc' = "deduplicated"
    /\ UNCHANGED <<contacts, permuted, outPerm, outTwice>>
    /\ UNCHANGED <<nvars, svars>>

DeduplicateAgain ==
    /\ dpc = "deduplicated"
    /\ outTwice' = deduplicateContacts(out.deduplicated)
    /\ dpc' = "again"
    /\ UNCHANGED <<contacts, permuted, out, outPerm>>
    /\ UNCHANGED <<nvars, svars>>

DedupNext == Deduplicate \/ DeduplicateAgain

SpecDedup == DedupInit /\ [][DedupNext]_vars

(* Driver of the merge fold: one identity, the list and one of its orderings *)

MergeInit ==
    /\ contacts \in {s \in SeqsUpTo(SightingPool, MaxSightings) : Len(s) >= 2}
    /\ permuted \in PermutationsOf(contacts)
    /\ out = NoOut
    /\ outPerm = NoOut
    /\ outTwice = NoOut
    /\ dpc = "start"
    /\ DetectorIdle
    /\ OthersIdle

DeduplicatePermuted ==
    /\ dpc = "deduplicated"
    /\ outPerm' = deduplicateContacts(permuted)
    /\ dpc' = "permuted"
    /\ UNCHANGED <<contacts, permuted, out, outTwice>>
    /\ UNCHANGED <<nvars, svars>>

MergeNext == Deduplicate \/ DeduplicatePermuted

SpecMerge == MergeInit /\ [][MergeNext]_vars

-----------------------------------------------------------------------------
(* Driver of one classification: detectNewsletter, then the rule overrides,  *)
(* as the extraction run does for each message                               *)

DetectInit ==
    /\ DedupIdle
    /\ OthersIdle
    /\ detectionCache = <<>>
    /\ email \in DetectPool
    /\ threshold \in Thresholds
    /\ rules \in RulesPool
    /\ detection = NoDetection
    /\ scanned = FALSE
    /\ finalDetection = NoDetection
    /\ npc = "start"

\* const detection = await detectNewsletter(email, newsletterThreshold)
DetectNewsletter ==
    /\ npc = "start"
    /\ LET r == detectNewsletter(email, threshold, detectionCache)
       IN  /\ detection' = r.result
           /\ detectionCache' = r.cache
           /\ scanned' = r.scanned
    /\ npc' = "detected"
    /\ UNCHANGED <<email, threshold, rules, finalDetection>>
    /\ UNCHANGED <<dvars, svars>>

\* email.from.emailAddress.address.toLowerCase() raises a TypeError
ApplyRaises(e, r) == ~r.isNull /\ ~e.isNull /\ e.from = NonStringSeq

\* const finalDetection = applyWhitelistBlacklist(email, detection, rules)
ApplyWhitelistBlacklist ==
    /\ npc = "detected"
    /\ IF ApplyRaises(email, rules)
       THEN /\ npc' = "raised"
            /\ UNCHANGED finalDetection
       ELSE /\ npc' = "final"
            /\ finalDetection' = applyWhitelistBlacklist(email, detection, rules)
    /\ UNCHANGED <<detectionCache, email, threshold, rules, detection, scanned>>
    /\ UNCHANGED <<dvars, svars>>

DetectNext == DetectNewsletter \/ ApplyWhitelistBlacklist

SpecDetect == DetectInit /\ [][DetectNext]_vars

-----------------------------------------------------------------------------
(* Driver of one scan: detectNewsletter(email, threshold) on an empty cache, *)
(* with no rules to apply afterwards                                         *)

ScanThresholds == {60, 100}

ScanInit ==
    /\ DedupIdle
    /\ OthersIdle
    /\ detectionCache = <<>>
    /\ email \in DetectPool
    /\ threshold \in ScanThresholds
    /\ rules = NullRules
    /\ detection = NoDetection
    /\ scanned = FALSE
    /\ finalDetection = NoDetection
    /\ npc = "start"

ScanNext == DetectNewsletter

SpecScan == ScanInit /\ [][ScanNext]_vars

(* Driver of the cache: any sequence of detectNewsletter and clearCache calls *)

\* the message {id: 'w<i>', receivedDateTime: 't0'}
WarmMessage(i) ==
    [Message("w" \o ToString(i), NullHeaders, NullSeq, NullSeq, Null, NullSeq, NullSeq)
        EXCEPT !.receivedDateTime = "t0"]

\* the cache after detectNewsletter(WarmMessage(i)) for i = 1..n
WarmCache(n) ==
    [i \in 1..n |->
        [key   |-> CacheKey(WarmMessage(i), 60),
         value |-> detectNewsletter(WarmMessage(i), 60, <<>>).result]]

\* the calls explored: two messages, one of them seen with two contents and
\* two thresholds, the null message, a message with a null header and a
\* message of the warmed cache
CachedSender == <<"NoReply", "@", "Spam.com">>
CallPool ==
    { <<Message("m1", PersonalHeaders, CachedSender, NullSeq, Null, <<>>, <<>>), 60>>,
      <<Message("m1", BulkHeaders, CachedSender, NullSeq, Null, <<>>, <<>>), 60>>,
      <<Message("m1", BulkHeaders, CachedSender, NullSeq, Null, <<>>, <<>>), 30>>,
      <<Message("m2", PersonalHeaders, CachedSender, NullSeq, Null, <<>>, <<>>), 60>>,
      <<NullMessage, 60>>,
      <<Message("m3", <<NullHeader>>, NullSeq, NullSeq, Null, <<>>, <<>>), 60>>,
      <<WarmMessage(2), 60>> }

CacheInit ==
    /\ DedupIdle
    /\ OthersIdle
    /\ detectionCache \in {<<>>, WarmCache(CACHE_MAX_SIZE - 1), WarmCache(CACHE_MAX_SIZE)}
    /\ email = NullMessage
    /\ threshold = 60
    /\ rules = NullRules
    /\ detection = NoDetection
    /\ scanned = FALSE
    /\ finalDetection = NoDetection
    /\ npc = "start"

CallDetectNewsletter ==
    /\ \E call \in CallPool :
          LET e == call[1]
              t == call[2]
              r == detectNewsletter(e, t, detectionCache)
          IN  /\ email' = e
              /\ threshold' = t
              /\ detection' = r.result
              /\ detectionCache' = r.cache
              /\ scanned' = r.scanned
    /\ npc' = "called"
    /\ UNCHANGED <<rules, finalDetection>>
    /\ UNCHANGED <<dvars, svars>>

CallClearCache ==
    /\ detectionCache' = clearCache(detectionCache)
    /\ npc' = "cleared"
    /\ UNCHANGED <<email, threshold, rules, detection, scanned, finalDetection>>
    /\ UNCHANGED <<dvars, svars>>

CacheNext == CallDetectNewsletter \/ CallClearCache

SpecCache == CacheInit /\ [][CacheNext]_vars

-----------------------------------------------------------------------------
(* Driver of one merge: mergeContacts(existing, incoming) *)

PairInit ==
    /\ DedupIdle
    /\ DetectorIdle
    /\ NormalizerIdle
    /\ ExportIdle
    /\ SignatureIdle
    /\ RunIdle
    /\ TokensIdle
    /\ GraphIdle
    /\ existing \in PairPool
    /\ incoming \in PairPool
    /\ merged = existing
    /\ mpc = "start"

MergeContacts ==
    /\ mpc = "start"
    /\ merged' = mergeContacts(existing, incoming)
    /\ mpc' = "merged"
    /\ UNCHANGED <<existing, incoming>>
    /\ UNCHANGED <<dvars, nvars, zvars, cvars, gvars, rvars, tvars, kvars>>

PairNext == MergeContacts

SpecPair == PairInit /\ [][PairNext]_vars

-----------------------------------------------------------------------------
(* Driver of one normalization: normalizeContact(raw) *)

NormalizeInit ==
    /\ DedupIdle
    /\ DetectorIdle
    /\ PairIdle
    /\ ExportIdle
    /\ SignatureIdle
    /\ RunIdle
    /\ TokensIdle
    /\ GraphIdle
    /\ raw \in RawPool
    /\ normalizedContact = <<>>
    /\ zpc = "start"

NormalizeContact ==
    /\ zpc = "start"
    /\ \E now \in NowPool : normalizedContact' = normalizeContact(raw, now)
    /\ zpc' = "normalized"
    /\ UNCHANGED raw
    /\ UNCHANGED <<dvars, nvars, mvars, cvars, gvars, rvars, tvars, kvars>>

NormalizeNext == NormalizeContact

SpecNormalize == NormalizeInit /\ [][NormalizeNext]_vars

-----------------------------------------------------------------------------
(* Driver of one export: generateCSV(rows) *)

ExportInit ==
    /\ DedupIdle
    /\ DetectorIdle
    /\ PairIdle
    /\ NormalizerIdle
    /\ SignatureIdle
    /\ RunIdle
    /\ TokensIdle
    /\ GraphIdle
    /\ rows \in SeqsUpTo(CsvPool, MaxRows)
    /\ csv = <<>>
    /\ cpc = "start"

GenerateCSV ==
    /\ cpc = "start"
    /\ csv' = generateCSV(rows)
    /\ cpc' = "generated"
    /\ UNCHANGED rows
    /\ UNCHANGED <<dvars, nvars, mvars, zvars, gvars, rvars, tvars, kvars>>

ExportNext == GenerateCSV

SpecExport == ExportInit /\ [][ExportNext]_vars

-----------------------------------------------------------------------------
(* Driver of one signature extraction: extractSignature(bodyText) *)

SignatureInit ==
    /\ DedupIdle
    /\ DetectorIdle
    /\ PairIdle
    /\ NormalizerIdle
    /\ ExportIdle
    /\ RunIdle
    /\ TokensIdle
    /\ GraphIdle
    /\ bodyText \in BodyPool
    /\ signature = <<>>
    /\ gpc = "start"

ExtractSignature ==
    /\ gpc = "start"
    /\ signature' = extractSignature(bodyText)
    /\ gpc' = "extracted"
    /\ UNCHANGED bodyText
    /\ UNCHANGED <<dvars, nvars, mvars, zvars, cvars, rvars, tvars, kvars>>

SignatureNext == ExtractSignature

SpecSignature == SignatureInit /\ [][SignatureNext]_vars

-----------------------------------------------------------------------------
(* Driver of one extraction run: extractContactsFromEmails(args) *)

NoEmailsFound == [isError |-> FALSE, text |-> "No emails found matching the criteria."]
Completed == [isError |-> FALSE, text |-> "Contact extraction completed successfully!"]
\* the response of the catch block for an error with the given message
ErrorResponse(message) ==
    [isError |-> TRUE, text |-> "Error extracting contacts: " \o message]
AuthError == ErrorResponse("Authentication required")
FetchError == ErrorResponse("Graph API request failed")
\* error.message of senderEmail = email.from.emailAddress.address.toLowerCase()
ApplyRaiseMessage == "email.from.emailAddress.address.toLowerCase is not a function"
\* the responses of the catch block for a TypeError raised on a message
ProcessingErrors ==
    { ErrorResponse(m) :
        m \in { ApplyRaiseMessage,
                "Cannot read properties of null (reading 'from')",
                "Cannot read properties of null (reading 'emailAddress')",
                "emailAddress.address.toLowerCase is not a function",
                "displayName.trim is not a function",
                "html.replace is not a function" } }
WriteError == ErrorResponse("Failed to write CSV file")

RunInit ==
    /\ DedupIdle
    /\ PairIdle
    /\ NormalizerIdle
    /\ ExportIdle
    /\ SignatureIdle
    /\ TokensIdle
    /\ GraphIdle
    /\ detectionCache = <<>>
    /\ email = NullMessage
    /\ threshold = 60
    /\ rules \in RunRulesPool
    /\ detection = NoDetection
    /\ scanned = FALSE
    /\ finalDetection = NoDetection
    /\ npc = "idle"
    /\ mailbox = <<>>
    /\ args \in ArgsPool
    /\ emails = <<>>
    /\ unique = NoOut
    /\ exported = <<>>
    /\ response = NoResponse
    /\ rpc = "start"
    /\ cursor = 0
    /\ emailsToProcess = <<>>
    /\ outlookEmails = {}

RunUnchanged ==
    UNCHANGED <<dvars, mvars, zvars, cvars, gvars, tvars, kvars,
                email, threshold, rules, finalDetection, npc>>

\* const accessToken = await ensureAuthenticated()
EnsureAuthenticated ==
    /\ rpc = "start"
    /\ \E authenticated \in BOOLEAN :
          IF authenticated
          THEN rpc' = "fetching" /\ UNCHANGED response
          ELSE rpc' = "done" /\ response' = AuthError
    /\ UNCHANGED <<mailbox, args, emails, unique, exported, detectionCache,
                   detection, scanned, cursor, emailsToProcess, outlookEmails>>
    /\ RunUnchanged

\* the messages returned without the slice to maxEmails
SliceToNothing(list, n) == list

\* emails.slice(0, maxEmails)
SliceTo(list, n) == SubSeq(list, 1, Min(Len(list), n))

\* the test of the while loop of fetchEmails and, when it holds, the call of
\* callGraphAPI, at whose await fetchEmails is suspended
RequestPage ==
    /\ rpc = "fetching"
    /\ IF Len(emails) < args.maxEmails
       THEN /\ mailbox' = Append(mailbox, PendingPage)
            /\ rpc' = "awaiting"
            /\ UNCHANGED emails
       ELSE /\ emails' = SliceTo(emails, args.maxEmails)
            /\ rpc' = "fetched"
            /\ UNCHANGED mailbox
    /\ UNCHANGED <<args, unique, exported, response, detectionCache,
                   detection, scanned, cursor, emailsToProcess, outlookEmails>>
    /\ RunUnchanged

\* the request is answered and the iteration goes on to its end; the
\* rejection of callGraphAPI leaves fetchEmails and reaches the catch of the
\* run
ReceivePage ==
    /\ rpc = "awaiting"
    /\ \E page \in PagePool :
          /\ mailbox' = [mailbox EXCEPT ![Len(mailbox)] = page]
          /\ IF page.kind = "error"
             THEN /\ response' = FetchError
                  /\ rpc' = "done"
                  /\ UNCHANGED emails
             ELSE IF Len(page.value) = 0
             THEN /\ emails' = SliceTo(emails, args.maxEmails)
                  /\ rpc' = "fetched"
                  /\ UNCHANGED response
             ELSE IF page.nextLink /\ Len(emails \o page.value) < args.maxEmails
             THEN /\ emails' = emails \o page.value
                  /\ rpc' = "fetching"
                  /\ UNCHANGED response
             ELSE /\ emails' = SliceTo(emails \o page.value, args.maxEmails)
                  /\ rpc' = "fetched"
                  /\ UNCHANGED response
    /\ UNCHANGED <<args, unique, exported, detectionCache,
                   detection, scanned, cursor, emailsToProcess, outlookEmails>>
    /\ RunUnchanged

\* lines 414-438: extract from every message kept, normalize, deduplicate,
\* and call fetchOutlookContactEmails, which sends its first request; a
\* TypeError raised on a message reaches the catch of the run
ExtractAndDeduplicate(kept) ==
    IF \E i \in 1..Len(kept) : ExtractRaises(kept[i], args.includeBody)
    THEN /\ response' = ErrorResponse(FirstRaiseMessage(kept, args.includeBody))
         /\ rpc' = "done"
         /\ UNCHANGED <<unique, outlookEmails>>
    ELSE /\ \E now \in NowPool : unique' = ContactsOf(kept, args.includeBody, now)
         /\ outlookEmails' = {}
         /\ rpc' = "crossref"
         /\ UNCHANGED response

\* detectNewsletter(emails[k], newsletterThreshold), at whose await the run
\* is suspended
AwaitDetection(k) ==
    \E r \in {detectNewsletter(emails[k], args.newsletterThreshold, detectionCache)} :
        /\ detection' = r.result
        /\ scanned' = r.scanned
        /\ detectionCache' = r.cache
        /\ cursor' = k
        /\ rpc' = "classifying"

\* lines 366-390: fetchEmails has returned; the empty result, and else the
\* first detectNewsletter call of the filter or, without the filter, the
\* extraction
StartProcessing ==
    /\ rpc = "fetched"
    /\ IF Len(emails) = 0
       THEN /\ response' = NoEmailsFound
            /\ rpc' = "done"
            /\ UNCHANGED <<unique, outlookEmails, detectionCache, detection, scanned,
                           cursor, emailsToProcess>>
       ELSE IF args.excludeNewsletters
       THEN /\ AwaitDetection(1)
            /\ emailsToProcess' = <<>>
            /\ UNCHANGED <<response, unique, outlookEmails>>
       ELSE /\ ExtractAndDeduplicate(emails)
            /\ UNCHANGED <<detectionCache, detection, scanned, cursor, emailsToProcess>>
    /\ UNCHANGED <<mailbox, args, emails, exported>>
    /\ RunUnchanged

\* lines 390-408 from the resolution of the detection awaited:
\* applyWhitelistBlacklist on the message, the message kept or counted, and
\* then the detectNewsletter call of the next message or, after the last
\* one, the extraction
ResumeClassification ==
    /\ rpc = "classifying"
    /\ IF ApplyRaises(emails[cursor], rules)
       THEN /\ response' = ErrorResponse(ApplyRaiseMessage)
            /\ rpc' = "done"
            /\ UNCHANGED <<unique, outlookEmails, detectionCache, detection, scanned,
                           cursor, emailsToProcess>>
       ELSE \E kept \in {IF applyWhitelistBlacklist(emails[cursor], detection,
                                                    rules).isNewsletter
                          THEN emailsToProcess
                          ELSE Append(emailsToProcess, emails[cursor])} :
              /\ emailsToProcess' = kept
              /\ IF cursor < Len(emails)
                 THEN /\ AwaitDetection(cursor + 1)
                      /\ UNCHANGED <<response, unique, outlookEmails>>
                 ELSE /\ ExtractAndDeduplicate(kept)
                      /\ UNCHANGED <<detectionCache, detection, scanned, cursor>>
    /\ UNCHANGED <<mailbox, args, emails, exported>>
    /\ RunUnchanged

\* contact.isInOutlook = outlookEmails.has(contact.email), for each contact
MarkInOutlook(list, addresses) ==
    [i \in 1..Len(list) |->
        [list[i] EXCEPT !.isInOutlook = list[i].email \in addresses]]

\* outlookEmails.add(emailObj.address.toLowerCase().trim()) for the
\* addresses of a page
AddressesOf(page) ==
    {Trim(ToLowerCase(page.value[i])) : i \in 1..Len(page.value)}

\* lines 292-331: a page of Outlook contacts is answered; the loop asks for
\* the next page or ends (on an error, an empty page or a page without a
\* next link) and fetchOutlookContactEmails returns the addresses, for which
\* the run waits at line 438
ReceiveOutlookContacts ==
    /\ rpc = "crossref"
    /\ \E page \in OutlookPagePool :
       \E found \in {IF page.kind = "error" THEN outlookEmails
                      ELSE outlookEmails \cup AddressesOf(page)} :
          /\ outlookEmails' = found
          /\ IF page.kind = "page" /\ Len(page.value) > 0 /\ page.nextLink
             THEN UNCHANGED rpc
             ELSE rpc' = "crossreferenced"
    /\ UNCHANGED <<mailbox, args, emails, unique, exported, response, detectionCache,
                   detection, scanned, cursor, emailsToProcess>>
    /\ RunUnchanged

\* lines 438-458: the run resumes with the addresses; the contacts of the
\* deduplicated list are marked in place and writeContactsToCSV is called,
\* which writes the file or raises, and the run is suspended at its await
WriteContacts ==
    /\ rpc = "crossreferenced"
    /\ \E marked \in {MarkInOutlook(unique.deduplicated, outlookEmails)} :
          /\ unique' = [unique EXCEPT !.deduplicated = marked]
          /\ \E written \in BOOLEAN :
                IF written
                THEN /\ exported' = marked
                     /\ rpc' = "written"
                ELSE /\ rpc' = "write-failed"
                     /\ UNCHANGED exported
    /\ UNCHANGED <<mailbox, args, emails, response, detectionCache,
                   detection, scanned, cursor, emailsToProcess, outlookEmails>>
    /\ RunUnchanged

\* lines 458-527: the promise of writeContactsToCSV is settled; the result
\* text is built and returned, or the catch of the run returns the error
Respond ==
    /\ rpc \in {"written", "write-failed"}
    /\ response' = IF rpc = "written" THEN Completed ELSE WriteError
    /\ rpc' = "done"
    /\ UNCHANGED <<mailbox, args, emails, unique, exported, detectionCache,
                   detection, scanned, cursor, emailsToProcess, outlookEmails>>
    /\ RunUnchanged

RunNext ==
    \/ EnsureAuthenticated \/ RequestPage \/ ReceivePage
    \/ StartProcessing \/ ResumeClassification
    \/ ReceiveOutlookContacts \/ WriteContacts \/ Respond

SpecRun == RunInit /\ [][RunNext]_vars

\* the run goes on while it can, and every page request is answered
SpecRunFair == SpecRun /\ WF_vars(RequestPage) /\ WF_vars(ReceivePage)

-----------------------------------------------------------------------------
(* auth/token-manager.js: getAccessToken calls that interleave at their      *)
(* awaits.  needsRefresh and refreshAccessToken belong to ./auto-refresh:    *)
(* needsRefresh answers either way, refreshAccessToken returns a promise     *)
(* that settles later with tokens, with null or with an error, or throws.    *)

\* the number of concurrent callers and of refreshes explored
MaxCallers == 2
MaxRefreshes == 2

\* the tokens of the token file
FileTokens == [access_token |-> "file-token"]
FilePool == {NoTokens, FileTokens}

\* the tokens handed to saveTokenCache: an object with an access token, null
SavedTokens == [access_token |-> "saved-token"]
SavePool == {SavedTokens, NoTokens}

\* "test_access_token_" + Date.now()
TestTokens(now) == [access_token |-> "test_access_token_" \o now]
TestNowPool == {"1700000000000"}

\* a direct call of one of the cache functions and what it returned
CacheCall(name, returns) == [name |-> name, returns |-> returns]

\* the tokens that the refresh k resolves with
RefreshedTokens(k) == [access_token |-> "token-" \o ToString(k)]

\* a call that is not under way, with its last return value
Returned(value) ==
    [pc |-> "returned", awaits |-> 0, path |-> 0, tokens |-> Null, result |-> value]
\* a call that left getAccessToken with an exception
Rejected ==
    [pc |-> "rejected", awaits |-> 0, path |-> 0, tokens |-> Null, result |-> Null]
\* a call suspended at `await refreshPromise`; path 1 is the branch of the
\* cached tokens, path 2 the branch of the tokens loaded from the file
Awaiting(k, path, tokens) ==
    [pc |-> "awaiting", awaits |-> k, path |-> path,
     tokens |-> tokens.access_token, result |-> Null]

TokenInit ==
    /\ DedupIdle
    /\ DetectorIdle
    /\ PairIdle
    /\ NormalizerIdle
    /\ ExportIdle
    /\ SignatureIdle
    /\ RunIdle
    /\ GraphIdle
    /\ cachedTokens = NoTokens
    /\ refreshPromise = 0
    /\ refreshes = <<>>
    /\ callers = [c \in 1..MaxCallers |-> Returned(Null)]
    /\ tokenFile \in FilePool
    /\ cacheCall = NoCacheCall

\* the guard `if (!refreshPromise)` taken as if no refresh were ever pending
RefreshNeverPending == FALSE

\* !!refreshPromise: a refresh is pending
RefreshPending == refreshPromise # 0

\* getAccessToken(autoRefresh) up to its await or its return
GetAccessToken(c) ==
    /\ callers[c].pc # "awaiting"
    /\ \E autoRefresh \in BOOLEAN, stale \in BOOLEAN, file \in {tokenFile},
          thrown \in BOOLEAN :
          LET cached == cachedTokens.access_token # Null
              tokens == IF cached THEN cachedTokens ELSE file
              path   == IF cached THEN 1 ELSE 2
          IN  IF tokens.access_token = Null
              THEN /\ callers' = [callers EXCEPT ![c] = Returned(Null)]
                   /\ UNCHANGED <<cachedTokens, refreshPromise, refreshes>>
              ELSE /\ cachedTokens' = tokens
                   /\ IF autoRefresh /\ stale
                      THEN IF RefreshPending
                           THEN /\ callers' = [callers EXCEPT
                                     ![c] = Awaiting(refreshPromise, path, tokens)]
                                /\ UNCHANGED <<refreshPromise, refreshes>>
                           ELSE /\ Len(refreshes) < MaxRefreshes
                                /\ IF thrown
                                   THEN /\ callers' = [callers EXCEPT ![c] = Rejected]
                                        /\ UNCHANGED <<refreshPromise, refreshes>>
                                   ELSE /\ refreshes' = Append(refreshes, "pending")
                                        /\ refreshPromise' = Len(refreshes) + 1
                                        /\ callers' = [callers EXCEPT
                                             ![c] = Awaiting(Len(refreshes) + 1, path, tokens)]
                      ELSE /\ callers' = [callers EXCEPT
                                ![c] = Returned(tokens.access_token)]
                           /\ UNCHANGED <<refreshPromise, refreshes>>
    /\ UNCHANGED <<tokenFile, cacheCall>>
    /\ UNCHANGED <<dvars, nvars, mvars, zvars, cvars, gvars, rvars, kvars>>

\* the promise of refreshAccessToken settles and the .then or the .catch
\* callback of getAccessToken runs; refreshAccessToken may have stored the
\* new tokens in the token file, or not
SettleRefresh(k) ==
    /\ k \in 1..Len(refreshes)
    /\ refreshes[k] = "pending"
    /\ \E outcome \in {"tokens", "null", "error"} :
          /\ refreshes' = [refreshes EXCEPT ![k] = outcome]
          /\ cachedTokens' = CASE outcome = "tokens" -> RefreshedTokens(k)
                               [] outcome = "null" -> NoTokens
                               [] outcome = "error" -> cachedTokens
          /\ tokenFile' \in IF outcome = "tokens"
                             THEN {tokenFile, RefreshedTokens(k)} ELSE {tokenFile}
    /\ refreshPromise' = 0
    /\ UNCHANGED <<callers, cacheCall>>
    /\ UNCHANGED <<dvars, nvars, mvars, zvars, cvars, gvars, rvars, kvars>>

\* a call resumes after `await refreshPromise`: the new access token, or in
\* the catch block the cached one (path 1) or the loaded one (path 2)
ResumeCaller(c) ==
    /\ callers[c].pc = "awaiting"
    /\ refreshes[callers[c].awaits] # "pending"
    /\ callers' = [callers EXCEPT ![c] =
          IF refreshes[callers[c].awaits] = "tokens"
          THEN Returned(RefreshedTokens(callers[c].awaits).access_token)
          ELSE IF callers[c].path = 2 THEN Returned(callers[c].tokens)
          ELSE IF cachedTokens = NoTokens THEN Rejected
          ELSE Returned(cachedTokens.access_token)]
    /\ UNCHANGED <<cachedTokens, refreshPromise, refreshes, tokenFile, cacheCall>>
    /\ UNCHANGED <<dvars, nvars, mvars, zvars, cvars, gvars, rvars, kvars>>

\* loadTokenCache(), called directly: the tokens of the file are cached and
\* returned when they hold an access token; a file that is missing, does not
\* parse or holds no access token leaves the cache and returns null
LoadTokenCache ==
    /\ IF tokenFile.access_token # Null
       THEN /\ cachedTokens' = tokenFile
            /\ cacheCall' = CacheCall("loadTokenCache", tokenFile.access_token)
       ELSE /\ cacheCall' = CacheCall("loadTokenCache", Null)
            /\ UNCHANGED cachedTokens
    /\ UNCHANGED <<refreshPromise, refreshes, callers, tokenFile>>
    /\ UNCHANGED <<dvars, nvars, mvars, zvars, cvars, gvars, rvars, kvars>>

\* saveTokenCache(tokens): the file is written and the tokens are cached, or
\* the write raises and nothing changes
SaveTokenCache ==
    /\ \E tokens \in SavePool, written \in BOOLEAN :
          IF written
          THEN /\ tokenFile' = tokens
               /\ cachedTokens' = tokens
               /\ cacheCall' = CacheCall("saveTokenCache", "true")
          ELSE /\ cacheCall' = CacheCall("saveTokenCache", "false")
               /\ UNCHANGED <<tokenFile, cachedTokens>>
    /\ UNCHANGED <<refreshPromise, refreshes, callers>>
    /\ UNCHANGED <<dvars, nvars, mvars, zvars, cvars, gvars, rvars, kvars>>

\* createTestTokens(): the test tokens are saved through saveTokenCache and
\* returned, whether the save succeeded or not
CreateTestTokens ==
    /\ \E now \in TestNowPool, written \in BOOLEAN :
          /\ cacheCall' = CacheCall("createTestTokens", TestTokens(now).access_token)
          /\ IF written
             THEN /\ tokenFile' = TestTokens(now)
                  /\ cachedTokens' = TestTokens(now)
             ELSE UNCHANGED <<tokenFile, cachedTokens>>
    /\ UNCHANGED <<refreshPromise, refreshes, callers>>
    /\ UNCHANGED <<dvars, nvars, mvars, zvars, cvars, gvars, rvars, kvars>>

TokenNext ==
    \/ \E c \in 1..MaxCallers : GetAccessToken(c)
    \/ \E k \in 1..MaxRefreshes : SettleRefresh(k)
    \/ \E c \in 1..MaxCallers : ResumeCaller(c)
    \/ LoadTokenCache
    \/ SaveTokenCache
    \/ CreateTestTokens

SpecToken == TokenInit /\ [][TokenNext]_vars

-----------------------------------------------------------------------------
(* Driver of one invocation of callGraphAPI, with its retries *)

StatusPool == {200, 204, 302, 401, 404, 429, 500, 503, 504}

QueryPool ==
    { <<>>,
      <<Param("$top", "50")>>,
      <<Param("$top", "50"), Param("$filter", "receivedDateTime ge 2024-01-01T00:00:00.000Z")>>,
      <<Param("$filter", "isRead eq false"), Param("$select", "id,from")>>,
      <<Param("$filter", "")>> }

GraphCallPool ==
    { [testMode |-> t, method |-> m, path |-> p, queryParams |-> q] :
        t \in BOOLEAN, m \in {"GET", "POST"},
        p \in {"me/messages", "me/mailFolders/My Folder/messages"},
        q \in QueryPool }

GraphInit ==
    /\ DedupIdle
    /\ DetectorIdle
    /\ PairIdle
    /\ NormalizerIdle
    /\ ExportIdle
    /\ SignatureIdle
    /\ RunIdle
    /\ TokensIdle
    /\ request \in GraphCallPool
    /\ queryParams = request.queryParams
    /\ attempts = <<>>
    /\ retryCount = 0
    /\ promise = "pending"
    /\ kpc = "request"

GraphUnchanged == UNCHANGED <<dvars, nvars, mvars, zvars, cvars, gvars, rvars, tvars>>

\* callGraphAPI up to req.end(): the simulated response of the test mode, or
\* the query string built from the caller's object and the request sent
SendRequest ==
    /\ kpc = "request"
    /\ IF request.testMode
       THEN /\ promise' = "resolved"
            /\ kpc' = "done"
            /\ UNCHANGED <<queryParams, attempts>>
       ELSE /\ attempts' = Append(attempts,
                              [ method  |-> request.method,
                                path    |-> EncodedPath(request.path),
                                query   |-> QueryString(queryParams),
                                status  |-> 0,
                                retryIn |-> 0 ])
            /\ queryParams' = ParamsAfterBuild(queryParams)
            /\ kpc' = "sent"
            /\ UNCHANGED promise
    /\ UNCHANGED <<request, retryCount>>
    /\ GraphUnchanged

\* res.on('end'): a 2xx status resolves, or rejects when the body does not
\* parse; 401 rejects; a retryable status below the retry limit sets the
\* timer; any other status rejects
ReceiveResponse ==
    /\ kpc = "sent"
    /\ \E status \in StatusPool, parses \in BOOLEAN :
          IF status >= 200 /\ status < 300
          THEN /\ attempts' = [attempts EXCEPT ![Len(attempts)].status = status]
               /\ promise' = IF parses THEN "resolved" ELSE "rejected"
               /\ kpc' = "done"
          ELSE IF status # 401 /\ ShouldRetry(status, retryCount)
          THEN /\ attempts' = [attempts EXCEPT ![Len(attempts)].status = status,
                                               ![Len(attempts)].retryIn = RetryDelay(retryCount)]
               /\ kpc' = "backoff"
               /\ UNCHANGED promise
          ELSE /\ attempts' = [attempts EXCEPT ![Len(attempts)].status = status]
               /\ promise' = "rejected"
               /\ kpc' = "done"
    /\ UNCHANGED <<request, queryParams, retryCount>>
    /\ GraphUnchanged

\* req.on('error'): no response is received
NetworkError ==
    /\ kpc = "sent"
    /\ promise' = "rejected"
    /\ kpc' = "done"
    /\ UNCHANGED <<request, queryParams, attempts, retryCount>>
    /\ GraphUnchanged

\* the timer fires: callGraphAPI(..., queryParams, customHeaders, retryCount + 1)
RetryAfterDelay ==
    /\ kpc = "backoff"
    /\ retryCount' = retryCount + 1
    /\ kpc' = "request"
    /\ UNCHANGED <<request, queryParams, attempts, promise>>
    /\ GraphUnchanged

GraphNext == SendRequest \/ ReceiveResponse \/ NetworkError \/ RetryAfterDelay

SpecGraph == GraphInit /\ [][GraphNext]_vars

\* every request sent is answered, and every timer set fires
SpecGraphFair ==
    SpecGraph /\ WF_vars(SendRequest) /\ WF_vars(ReceiveResponse) /\ WF_vars(RetryAfterDelay)

-----------------------------------------------------------------------------
(* Properties of the deduplicator *)

\* a contact's identity: its lower-cased, trimmed email
Identity(c) == Trim(ToLowerCase(c.email))
HasEmail(c) == TruthyChars(c.email)
\* position of the first contact of the list with this identity
FirstSighting(list, id) ==
    CHOOSE i \in 1..Len(list) :
        /\ HasEmail(list[i]) /\ Identity(list[i]) = id
        /\ \A j \in 1..(i - 1) : ~(HasEmail(list[j]) /\ Identity(list[j]) = id)

\* C1: the list returned by deduplicateContacts holds no two contacts of the
\* same identity, holds one contact for every identity that occurs in the
\* input, and lists them in the order in which the identities first occur.
C1_OneRecordPerIdentity ==
    dpc # "start" =>
        LET d == out.deduplicated IN
        /\ \A i \in 1..Len(d) : HasEmail(d[i])
        /\ \A i, j \in 1..Len(d) : i # j => Identity(d[i]) # Identity(d[j])
        /\ \A i \in 1..Len(contacts) :
              HasEmail(contacts[i]) =>
                  \E j \in 1..Len(d) : Identity(d[j]) = Identity(contacts[i])
        /\ \A j \in 1..Len(d) :
              \E i \in 1..Len(contacts) :
                  HasEmail(contacts[i]) /\ Identity(contacts[i]) = Identity(d[j])
        /\ \A j, k \in 1..Len(d) :
              j < k => FirstSighting(contacts, Identity(d[j]))
                         < FirstSighting(contacts, Identity(d[k]))

\* two sightings written differently (case, padding) were merged and a second
\* identity was kept beside them
C1_Witness ==
    /\ dpc # "start"
    /\ Len(out.deduplicated) = 2
    /\ \E i, j \in 1..Len(contacts) :
          /\ i < j
          /\ HasEmail(contacts[i]) /\ HasEmail(contacts[j])
          /\ contacts[i].email # contacts[j].email
          /\ Identity(contacts[i]) = Identity(contacts[j])

\* the fields of a merged record other than its key, lists compared as sets
FinalFields(c) ==
    [ displayName          |-> c.displayName,
      firstName            |-> c.firstName,
      lastName             |-> c.lastName,
      phoneNumbers         |-> IF IsArray(c.phoneNumbers) THEN Range(c.phoneNumbers) ELSE {},
      linkedInUrls         |-> IF IsArray(c.linkedInUrls) THEN Range(c.linkedInUrls) ELSE {},
      companyName          |-> c.companyName,
      jobTitle             |-> c.jobTitle,
      source               |-> c.source,
      isInOutlook          |-> c.isInOutlook,
      firstSeenDate        |-> c.firstSeenDate,
      extractionConfidence |-> c.extractionConfidence ]

\* C2: the sightings of one identity merge to the same field values and the
\* same sets of phone numbers and URLs in every order of arrival.
C2_MergeOrderIndependent ==
    dpc = "permuted" =>
        /\ Len(out.deduplicated) = 1
        /\ Len(outPerm.deduplicated) = 1
        /\ FinalFields(out.deduplicated[1]) = FinalFields(outPerm.deduplicated[1])

\* C10: deduplicating the output of deduplicateContacts returns that output.
C10_DedupIdempotent ==
    dpc = "again" => outTwice.deduplicated = out.deduplicated

\* the first pass merged duplicates and kept several identities
C10_Witness ==
    /\ dpc = "again"
    /\ Len(out.deduplicated) >= 2
    /\ out.duplicatesRemoved >= 1
    /\ \E i \in 1..Len(out.deduplicated) : out.deduplicated[i] \notin Range(contacts)

-----------------------------------------------------------------------------
(* Properties of mergeContacts *)

\* the priority the documentation gives a source
SourceRank(source) ==
    CASE source = "metadata" -> 3
      [] source = "signature" -> 2
      [] source = "body" -> 1
      [] OTHER -> 0

IncomingOutranks == SourceRank(incoming.source) > SourceRank(existing.source)

TextFields ==
    {"displayName", "firstName", "lastName", "companyName", "jobTitle", "source"}
DateAndTierFields == {"firstSeenDate", "extractionConfidence"}
ListFields == {"phoneNumbers", "linkedInUrls"}

\* the value the claimed rule gives a field, from whether each side is there
ByPriority(f, hasExisting, hasIncoming) ==
    /\ (hasIncoming /\ ~hasExisting) => merged[f] = incoming[f]
    /\ (hasIncoming /\ hasExisting) =>
          merged[f] = IF IncomingOutranks THEN incoming[f] ELSE existing[f]

\* C11 as stated: every field other than email follows the priority rule,
\* a value counting as there when it is not null, and the merged email is the
\* existing record's email.
C11_EveryFieldByPriority ==
    mpc = "merged" =>
        /\ \A f \in TextFields \cup DateAndTierFields :
              ByPriority(f, existing[f] # Null, incoming[f] # Null)
        /\ \A f \in ListFields :
              ByPriority(f, existing[f] # NullSeq, incoming[f] # NullSeq)
        /\ ByPriority("isInOutlook", TRUE, TRUE)
        /\ merged.email = existing.email

\* the rank of an extraction-confidence tier
TierRank(tier) ==
    CASE tier = "high" -> 3
      [] tier = "medium" -> 2
      [] tier = "low" -> 1
      [] OTHER -> 0

\* a value is there when JavaScript takes it for true: a text, date or tier
\* that is neither null nor empty, a list (even an empty one), a true flag
Present(f, c) ==
    CASE f \in ListFields -> c[f] # NullSeq
      [] f = "isInOutlook" -> c[f] = TRUE
      [] OTHER -> c[f] \notin {Null, ""}

BothPresent(f) == Present(f, existing) /\ Present(f, incoming)

\* C11 amended: every field other than email takes the incoming value when
\* only the incoming value is there; when both are there the text fields and
\* isInOutlook follow the source priority, the two lists are unioned, the date
\* is the existing one only when strictly earlier, and the tier is the
\* incoming one exactly when the incoming source outranks or the incoming tier
\* is strictly higher; the merged email is the existing record's email.
C11_FieldsByPriorityOrKind ==
    mpc = "merged" =>
        /\ \A f \in TextFields \cup DateAndTierFields \cup ListFields \cup {"isInOutlook"} :
              (Present(f, incoming) /\ ~Present(f, existing)) => merged[f] = incoming[f]
        /\ \A f \in TextFields \cup {"isInOutlook"} :
              BothPresent(f) =>
                  merged[f] = IF IncomingOutranks THEN incoming[f] ELSE existing[f]
        /\ \A f \in ListFields :
              BothPresent(f) =>
                  /\ Range(merged[f]) = Range(existing[f]) \cup Range(incoming[f])
                  /\ Cardinality(Range(merged[f])) = Len(merged[f])
        /\ BothPresent("firstSeenDate") =>
              merged.firstSeenDate =
                  IF DateValue(existing.firstSeenDate) < DateValue(incoming.firstSeenDate)
                  THEN existing.firstSeenDate
                  ELSE incoming.firstSeenDate
        /\ BothPresent("extractionConfidence") =>
              merged.extractionConfidence =
                  IF \/ IncomingOutranks
                     \/ TierRank(incoming.extractionConfidence)
                          > TierRank(existing.extractionConfidence)
                  THEN incoming.extractionConfidence
                  ELSE existing.extractionConfidence
        /\ merged.email = existing.email

\* a merge in which the incoming name replaces a different existing name and
\* the existing email, written differently from the incoming one, is kept
C11_Witness ==
    /\ mpc = "merged"
    /\ IncomingOutranks
    /\ existing.displayName \notin {Null, ""}
    /\ incoming.displayName \notin {Null, "", existing.displayName}
    /\ merged.displayName = incoming.displayName
    /\ incoming.email # existing.email
    /\ merged.email = existing.email

Tiers == {"low", "medium", "high"}

\* C12: when both contacts carry a tier, the merged tier is the higher one.
C12_HigherTierKept ==
    (mpc = "merged" /\ existing.extractionConfidence \in Tiers
                    /\ incoming.extractionConfidence \in Tiers) =>
        TierRank(merged.extractionConfidence)
            = Max(TierRank(existing.extractionConfidence),
                  TierRank(incoming.extractionConfidence))


-----------------------------------------------------------------------------
(* Properties of the detector *)

\* the latest detectNewsletter call received a message with an identifier
HasId(e) == ~e.isNull /\ TruthyStr(e.id)
\* some scanner raises on the message
ScannerRaises(e) == LET rs == RunScanners(e) IN \E i \in 1..Len(rs) : rs[i].throws
\* the sum of the six scanner scores of the message
RawScore(e) == SumScores(RunScanners(e))
\* the latest call computed a result from the scanners
Computed == npc # "start" /\ HasId(email) /\ scanned /\ ~ScannerRaises(email)

\* the sender has an address, and the rule set is not null
RulesApply == ~rules.isNull /\ ~email.isNull /\ TruthyChars(email.from)
\* the address or its domain is in the list, compared case-insensitively
InList(list) ==
    LET address == ToLowerCase(email.from)
    IN  \/ \E i \in 1..Len(list.domains) :
              ToLowerCase(list.domains[i]) = SenderDomain(address)
        \/ \E i \in 1..Len(list.senders) :
              ToLowerCase(list.senders[i]) = address
Whitelisted == RulesApply /\ InList(rules.whitelist)
Blacklisted == RulesApply /\ InList(rules.blacklist)

\* C3: the confidence of every result of detectNewsletter is between 0 and
\* 100, and so is the confidence after applyWhitelistBlacklist.
C3_ConfidenceInRange ==
    /\ npc \in {"detected", "final", "raised"} => detection.confidence \in 0..100
    /\ npc = "final" => finalDetection.confidence \in 0..100

\* the scanners summed to more than 100 and an override then changed the result
C3_Witness ==
    /\ npc = "final"
    /\ Computed
    /\ RawScore(email) > 100
    /\ detection.confidence = 100
    /\ finalDetection # detection

\* C4 as stated: for every threshold, isNewsletter = (confidence >= threshold)
\* with confidence the scanner sum clamped to 100.
C4_DecisionFromConfidence ==
    Computed =>
        /\ detection.confidence = Min(RawScore(email), 100)
        /\ detection.isNewsletter = (detection.confidence >= threshold)

\* C4 amended: isNewsletter = (scanner sum >= threshold), confidence is the sum
\* clamped to 100, and isNewsletter = (confidence >= threshold) for every
\* threshold up to 100.
C4_DecisionFromScore ==
    Computed =>
        /\ detection.confidence = Min(RawScore(email), 100)
        /\ detection.isNewsletter = (RawScore(email) >= threshold)
        /\ threshold <= 100 =>
              detection.isNewsletter = (detection.confidence >= threshold)

\* a message flagged on a threshold above 100
C4_Witness ==
    /\ Computed
    /\ threshold > 100
    /\ detection.isNewsletter
    /\ detection.confidence = 100

\* C5: a sender whose domain or address is whitelisted gets isNewsletter =
\* FALSE, the tag 'whitelisted' appended and the confidence unchanged,
\* whatever the score, the blacklist and the custom patterns.
C5_WhitelistWins ==
    (npc = "final" /\ Whitelisted) =>
        /\ finalDetection.isNewsletter = FALSE
        /\ finalDetection.signals = Append(detection.signals, "whitelisted")
        /\ finalDetection.confidence = detection.confidence

\* a whitelisted sender that is blacklisted too and scored as a newsletter
C5_Witness ==
    /\ npc = "final"
    /\ Whitelisted
    /\ Blacklisted
    /\ detection.isNewsletter
    /\ ~finalDetection.isNewsletter

\* C6 as stated: a blacklisted sender always gets isNewsletter = TRUE and
\* confidence = 100.
C6_BlacklistAlwaysFilters ==
    (npc = "final" /\ Blacklisted) =>
        /\ finalDetection.isNewsletter
        /\ finalDetection.confidence = 100

\* C6 amended: a blacklisted sender that is not whitelisted gets
\* isNewsletter = TRUE and confidence = 100.
C6_BlacklistFiltersUnlessWhitelisted ==
    (npc = "final" /\ Blacklisted /\ ~Whitelisted) =>
        /\ finalDetection.isNewsletter
        /\ finalDetection.confidence = 100

\* a blacklisted sender, listed by address, that the detector had let pass
C6_Witness ==
    /\ npc = "final"
    /\ Blacklisted
    /\ ~Whitelisted
    /\ ~detection.isNewsletter
    /\ detection.confidence < 100
    /\ finalDetection.isNewsletter

\* C7: for the null message, a message without identifier, or a message on
\* which a scanner raises, detectNewsletter returns the fail-safe result.
C7_FailSafe ==
    (npc # "start" /\ (~HasId(email) \/ (scanned /\ ScannerRaises(email)))) =>
        detection = DetectionError

\* a scanner raised on a message that has an identifier
C7_Witness ==
    /\ npc # "start"
    /\ HasId(email)
    /\ scanned
    /\ ScannerRaises(email)
    /\ detection = DetectionError

\* C8: a call whose key is in the cache returns the stored result, runs no
\* scanner and leaves the cache as it is, whatever the message's other fields.
C8_CacheHitReturnsStored ==
    [][ ( /\ npc' = "called"
          /\ HasId(email')
          /\ MapHas(detectionCache, CacheKey(email', threshold')) )
        => /\ detection' = MapGet(detectionCache, CacheKey(email', threshold'))
           /\ ~scanned'
           /\ detectionCache' = detectionCache ]_vars

\* a hit returned a result that the message of this call would not have got
C8_Witness ==
    /\ npc = "called"
    /\ HasId(email)
    /\ ~scanned
    /\ ~ScannerRaises(email)
    /\ detection # BuildResult(RawScore(email), AllSignals(RunScanners(email)), threshold)

\* C9: the detection cache never holds more than 1000 entries.
C9_CacheBounded == Len(detectionCache) <= 1000

\* a result was stored in a full cache and the oldest entry made room for it
C9_Witness ==
    /\ npc = "called"
    /\ scanned
    /\ Len(detectionCache) = 1000
    /\ detectionCache[1000].key = CacheKey(email, threshold)
    /\ detectionCache[1].key # CacheKey(WarmMessage(1), 60)

-----------------------------------------------------------------------------
(* Properties of the custom patterns of applyWhitelistBlacklist *)

\* the patterns new RegExp rejects
InvalidPatterns == {"(", "[a-"}

\* some pattern of the list that compiles matches the sender address
SenderHit ==
    LET ps == rules.customPatterns.senderPatterns
    IN  \E i \in 1..Len(ps) :
            ps[i] \notin InvalidPatterns /\ RegExpTestSender(ps[i], ToLowerCase(email.from))

\* some pattern of the list that compiles matches the subject
SubjectHit ==
    LET ps == rules.customPatterns.subjectPatterns
    IN  \E i \in 1..Len(ps) :
            ps[i] \notin InvalidPatterns /\ RegExpTestSubject(ps[i], email.subject)

\* the input detection forced to a newsletter by a custom pattern
Flagged(tag) ==
    [ isNewsletter |-> TRUE,
      confidence   |-> IF detection.confidence >= 75 THEN detection.confidence ELSE 75,
      signals      |-> Append(detection.signals, tag),
      reason       |-> tag ]

\* C13: for a message and a non-null rule set with no whitelist or blacklist
\* entry matching the sender, a matching valid sender pattern, or else a
\* matching valid subject pattern, makes applyWhitelistBlacklist return
\* isNewsletter = TRUE, confidence = max(input, 75) and the pattern's tag.
C13_CustomPatternsApply ==
    (/\ npc \in {"final", "raised"}
     /\ ~rules.isNull
     /\ ~email.isNull
     /\ ~InList(rules.whitelist)
     /\ ~InList(rules.blacklist)) =>
        /\ SenderHit => (npc = "final" /\ finalDetection = Flagged("custom-sender-pattern"))
        /\ (~SenderHit /\ SubjectHit) =>
              (npc = "final" /\ finalDetection = Flagged("custom-subject-pattern"))

\* the rule set with the patterns that do not compile taken out
WithoutInvalid(r) ==
    [r EXCEPT !.customPatterns =
        Patterns(SelectSeq(r.customPatterns.senderPatterns,
                           LAMBDA q : q \notin InvalidPatterns),
                 SelectSeq(r.customPatterns.subjectPatterns,
                           LAMBDA q : q \notin InvalidPatterns))]

\* C14: an invalid custom pattern never makes applyWhitelistBlacklist raise,
\* and the result is the result for the rule set without its invalid patterns.
C14_InvalidPatternsSkipped ==
    /\ npc = "raised" => ApplyRaises(email, WithoutInvalid(rules))
    /\ npc = "final" =>
          finalDetection = applyWhitelistBlacklist(email, detection, WithoutInvalid(rules))

\* an invalid pattern stands before the pattern that matched
C14_Witness ==
    /\ npc = "final"
    /\ ~rules.isNull
    /\ \/ /\ finalDetection.reason = "custom-sender-pattern"
          /\ Head(rules.customPatterns.senderPatterns) \in InvalidPatterns
       \/ /\ finalDetection.reason = "custom-subject-pattern"
          /\ Head(rules.customPatterns.subjectPatterns) \in InvalidPatterns

-----------------------------------------------------------------------------
(* Properties of normalizeContact *)

\* the raw contact has an email: the field is there and is not the empty string
RawHasEmail == raw.email # NullSeq /\ raw.email # <<>>

\* C15: normalizeContact returns null exactly when the raw contact has no
\* email; otherwise the email of the result is the input email lower-cased and
\* trimmed and is not empty, phoneNumbers and linkedInUrls are lists (the
\* legacy singular value alone when the list field is absent and the singular
\* one present) and the tier is low, medium or high.
C15_NormalizedContact ==
    zpc = "normalized" =>
        /\ (normalizedContact = <<>>) <=> ~RawHasEmail
        /\ RawHasEmail =>
              LET c == normalizedContact[1]
              IN  /\ c.email = TrimEnd(TrimStart(ToLowerCase(raw.email)))
                  /\ c.email # <<>>
                  /\ c.phoneNumbers # NullSeq
                  /\ c.linkedInUrls # NullSeq
                  /\ (raw.phoneNumbers = NullSeq /\ raw.phoneNumber \notin {Null, ""})
                        => c.phoneNumbers = <<raw.phoneNumber>>
                  /\ (raw.linkedInUrls = NullSeq /\ raw.linkedInUrl \notin {Null, ""})
                        => c.linkedInUrls = <<raw.linkedInUrl>>
                  /\ c.extractionConfidence \in {"low", "medium", "high"}

-----------------------------------------------------------------------------
(* Properties of generateCSV *)

\* the lines of the content: csv.split('\n')
RECURSIVE CsvLines(_)
CsvLines(text) ==
    IF "\n" \notin Range(text) THEN <<text>>
    ELSE LET i == CHOOSE k \in 1..Len(text) :
                      text[k] = "\n" /\ "\n" \notin Range(SubSeq(text, 1, k - 1))
         IN  <<SubSeq(text, 1, i - 1)>> \o CsvLines(SubSeq(text, i + 1, Len(text)))

\* the fixed header line
HeaderLine ==
    << "email", ",", "displayName", ",", "firstName", ",", "lastName", ",",
       "phoneNumbers", ",", "linkedInUrls", ",", "companyName", ",", "jobTitle", ",",
       "source", ",", "isInOutlook", ",", "firstSeenDate", ",",
       "extractionConfidence" >>

\* the number of newline characters in a string, none in an absent one
NewlinesIn(text) ==
    IF text = NullSeq THEN 0 ELSE Cardinality({i \in 1..Len(text) : text[i] = "\n"})

RECURSIVE NewlinesInList(_)
NewlinesInList(list) ==
    IF list = NullSeq \/ list = <<>> THEN 0
    ELSE NewlinesIn(Head(list)) + NewlinesInList(Tail(list))

\* the number of newline characters in the field values of a contact
NewlinesOf(contact) ==
    NewlinesIn(contact.email) + NewlinesIn(contact.displayName)
    + NewlinesIn(contact.firstName) + NewlinesIn(contact.lastName)
    + NewlinesInList(contact.phoneNumbers) + NewlinesInList(contact.linkedInUrls)
    + NewlinesIn(contact.companyName) + NewlinesIn(contact.jobTitle)
    + NewlinesIn(contact.source) + NewlinesIn(contact.firstSeenDate)
    + NewlinesIn(contact.extractionConfidence)

RECURSIVE NewlinesOfAll(_)
NewlinesOfAll(list) ==
    IF list = <<>> THEN 0 ELSE NewlinesOf(Head(list)) + NewlinesOfAll(Tail(list))

\* C18 as stated: for any contact list the content has len(contacts) + 1
\* lines and its first line is the fixed 12-column header.
C18_HeaderAndOneLinePerContact ==
    cpc = "generated" =>
        /\ Len(CsvLines(csv)) = Len(rows) + 1
        /\ CsvLines(csv)[1] = HeaderLine

\* C18 amended: for a non-empty list the first line is the header and the
\* content has len(contacts) + 1 lines plus one for every newline inside a
\* field value; for the empty list the content is the empty string.
C18_HeaderAndLinesOfNonEmptyList ==
    cpc = "generated" =>
        /\ rows # <<>> =>
              /\ CsvLines(csv)[1] = HeaderLine
              /\ Len(CsvLines(csv)) = Len(rows) + 1 + NewlinesOfAll(rows)
        /\ rows = <<>> => csv = <<>>

\* several contacts, one of them with a comma and one with quotes in a field,
\* exported as the header and one line each
C18_Witness ==
    /\ cpc = "generated"
    /\ Len(rows) >= 2
    /\ NewlinesOfAll(rows) = 0
    /\ \E i \in 1..Len(rows) : "," \in Range(rows[i].displayName)
    /\ \E i \in 1..Len(rows) : "\"" \in Range(rows[i].displayName)
    /\ Len(CsvLines(csv)) = Len(rows) + 1

-----------------------------------------------------------------------------
(* Properties of extractSignature *)

\* the positions of the body text at which some closing marker starts
MarkerPositions ==
    {i \in 1..Len(bodyText) :
        \E k \in 1..Len(signatureMarkers) :
            LET m == signatureMarkers[k]
            IN  /\ i + Len(m) - 1 <= Len(bodyText)
                /\ \A j \in 1..Len(m) : bodyText[i + j - 1] = m[j]}

\* C19: when the body text contains a closing marker, extractSignature
\* returns the text from the greatest last-occurrence position of a marker to
\* the end, cut to its first 500 characters when it is longer than 500.
C19_SignatureFromLastMarker ==
    gpc = "extracted" =>
        \A p \in MarkerPositions :
            (\A q \in MarkerPositions : q <= p) =>
                /\ Len(bodyText) - p + 1 <= 500
                      => signature = SubSeq(bodyText, p, Len(bodyText))
                /\ Len(bodyText) - p + 1 > 500
                      => signature = SubSeq(bodyText, p, p + 499)

\* a body with two different markers, the later one more than 500 characters
\* before the end, cut to 500 characters
C19_Witness ==
    /\ gpc = "extracted"
    /\ Len(bodyText) > 510
    /\ Len(signature) = 500
    /\ signature[1] = "T"
    /\ bodyText[1] = "B"
-----------------------------------------------------------------------------
(* Properties of the extraction run *)

\* a message on which the classification or the extraction of the run raises
Malformed(e) == ExtractRaises(e, args.includeBody)

PagesFetched == {i \in 1..Len(mailbox) : mailbox[i].kind = "page"}

\* a page request failed after at least one page of messages was received
FailedAfterAPage ==
    /\ Len(mailbox) >= 2
    /\ mailbox[Len(mailbox)].kind = "error"
    /\ \A i \in 1..Len(emails) : ~Malformed(emails[i])

\* C16: when a page fetch fails after at least one page was fetched, the run
\* still extracts and deduplicates the contacts of the messages fetched so
\* far and does not end with the error of the fetch alone.
C16_PartialResultsAfterFetchFailure ==
    (rpc = "done" /\ FailedAfterAPage) =>
        /\ response # FetchError
        /\ unique # NoOut

\* the messages of the batch whose processing does not raise
RECURSIVE WellFormedOf(_)
WellFormedOf(list) ==
    IF list = <<>> THEN <<>>
    ELSE IF Malformed(Head(list)) THEN WellFormedOf(Tail(list))
    ELSE <<Head(list)>> \o WellFormedOf(Tail(list))

\* the deduplicated contacts as they were before the marks of lines 441-443
Unmarked(result) ==
    [result EXCEPT !.deduplicated =
        [i \in 1..Len(result.deduplicated) |->
            [result.deduplicated[i] EXCEPT !.isInOutlook = FALSE]]]

\* the batch was fetched and its processing has ended
BatchProcessed ==
    /\ rpc \in {"crossref", "crossreferenced", "written", "write-failed", "done"}
    /\ Len(emails) > 0
    /\ response \notin {AuthError, FetchError}

\* C17: a malformed message in the batch never aborts the run: the run does
\* not end with the error raised on that message, and the contacts
\* deduplicated are those of a batch without the malformed messages.
C17_MalformedMessageIsolated ==
    (BatchProcessed /\ \E i \in 1..Len(emails) : Malformed(emails[i])) =>
        /\ response \notin ProcessingErrors
        /\ \E now \in NowPool :
              Unmarked(unique) = ContactsOf(
                  IF args.excludeNewsletters
                  THEN FilterNewsletters(WellFormedOf(emails), 1,
                                         args.newsletterThreshold, rules, <<>>, <<>>).kept
                  ELSE WellFormedOf(emails),
                  args.includeBody, now)
-----------------------------------------------------------------------------
(* Properties of getAccessToken *)

\* the refreshes in flight
InFlight == {k \in 1..Len(refreshes) : refreshes[k] = "pending"}

\* the callers suspended on the refresh k
WaitingFor(k) ==
    {c \in 1..MaxCallers : callers[c].pc = "awaiting" /\ callers[c].awaits = k}

\* C20: at any time at most one token refresh is in flight: a call that
\* comes to wait while a refresh is pending waits for that refresh and starts
\* none, and the marker of the pending refresh is cleared when the refresh
\* settles, by success or by failure.
C20_AtMostOneRefreshInFlight ==
    [][ /\ Cardinality(InFlight') <= 1
        /\ \A c \in 1..MaxCallers :
              (callers[c].pc # "awaiting" /\ callers'[c].pc = "awaiting"
                 /\ InFlight # {}) =>
                  /\ callers'[c].awaits \in InFlight
                  /\ refreshes' = refreshes
        /\ \A k \in InFlight : k \notin InFlight' => refreshPromise' = 0
        /\ \A k \in InFlight' : refreshPromise' = k ]_vars

\* a second refresh was started after the first one settled, and two calls
\* wait for it
C20_Witness ==
    /\ Len(refreshes) >= 2
    /\ refreshes[1] # "pending"
    /\ refreshes[2] = "pending"
    /\ Cardinality(WaitingFor(2)) >= 2

-----------------------------------------------------------------------------
(* Properties of the order of the overrides of applyWhitelistBlacklist *)

OverrideTags ==
    {"whitelisted", "blacklisted", "custom-sender-pattern", "custom-subject-pattern"}

\* the override tags among the signals of a result
TagsCarried(d) == {i \in 1..Len(d.signals) : d.signals[i] \in OverrideTags}

\* the tag of the first condition that matches, "none" when none does
FirstMatch ==
    IF ~RulesApply THEN "none"
    ELSE IF InList(rules.whitelist) THEN "whitelisted"
    ELSE IF InList(rules.blacklist) THEN "blacklisted"
    ELSE IF SenderHit THEN "custom-sender-pattern"
    ELSE IF SubjectHit THEN "custom-subject-pattern"
    ELSE "none"

\* the number of conditions that match
MatchCount ==
    (IF InList(rules.whitelist) THEN 1 ELSE 0) + (IF InList(rules.blacklist) THEN 1 ELSE 0)
    + (IF SenderHit THEN 1 ELSE 0) + (IF SubjectHit THEN 1 ELSE 0)

\* C21: a call of applyWhitelistBlacklist that returns applies at most one
\* override, the first that matches in the order whitelist, blacklist, sender
\* patterns, subject patterns: the result carries that tag and no other
\* override tag, and with no match the result is the input detection.
C21_FirstMatchingOverrideOnly ==
    npc = "final" =>
        /\ Cardinality(TagsCarried(finalDetection)) <= 1
        /\ FirstMatch = "none" => finalDetection = detection
        /\ FirstMatch # "none" =>
              /\ finalDetection.signals = Append(detection.signals, FirstMatch)
              /\ finalDetection.reason = FirstMatch

\* three conditions match at once and the result carries the first tag only
C21_Witness ==
    /\ npc = "final"
    /\ RulesApply
    /\ MatchCount >= 3
    /\ ~InList(rules.whitelist)
    /\ finalDetection.signals = Append(detection.signals, "blacklisted")

-----------------------------------------------------------------------------
(* Properties of the eviction of the detection cache *)

\* the latest call looks up a key that the cache, which is full, does not hold
MissesFullCache(key) ==
    /\ \A i \in 1..Len(detectionCache) : detectionCache[i].key # key
    /\ Len(detectionCache) = 1000

\* the oldest entry left, the others kept their order, the new key came last
OldestEvicted(key) ==
    /\ Len(detectionCache') = 1000
    /\ \A i \in 1..999 : detectionCache'[i] = detectionCache[i + 1]
    /\ detectionCache'[1000].key = key

\* C22 as stated: every call that misses a full cache evicts exactly the entry
\* inserted earliest, keeps every other entry in its order and stores the new
\* entry last; a call that hits leaves the entries and their order as they
\* are, so a hit does not change which entry is evicted next.
C22_EveryMissEvictsOldest ==
    [][ (npc' = "called" /\ HasId(email')) =>
          \A key \in {CacheKey(email', threshold')} :
            /\ (\E i \in 1..Len(detectionCache) : detectionCache[i].key = key) =>
                  detectionCache' = detectionCache
            /\ MissesFullCache(key) => OldestEvicted(key) ]_vars

\* C22 amended: a call that misses a full cache and computes a result evicts
\* exactly the entry inserted earliest, keeps every other entry in its order
\* and stores the new entry last; a call that misses a full cache and on which
\* a scanner raises evicts nothing and leaves the cache as it is; a call that
\* hits leaves the entries and their order as they are, so a hit does not
\* change which entry is evicted next.
C22_EvictsOldestInserted ==
    [][ (npc' = "called" /\ HasId(email')) =>
          \A key \in {CacheKey(email', threshold')} :
            /\ (\E i \in 1..Len(detectionCache) : detectionCache[i].key = key) =>
                  detectionCache' = detectionCache
            /\ (MissesFullCache(key) /\ ~ScannerRaises(email')) => OldestEvicted(key)
            /\ (MissesFullCache(key) /\ ScannerRaises(email')) =>
                  detectionCache' = detectionCache ]_vars

\* the first warmed entry was evicted by a miss, and the latest call hit the
\* entry that is now the oldest, which stays the first
C22_Witness ==
    /\ npc = "called"
    /\ ~scanned
    /\ HasId(email)
    /\ Len(detectionCache) = 1000
    /\ detectionCache[1].key = CacheKey(WarmMessage(2), 60)
    /\ detectionCache[1].key = CacheKey(email, threshold)
    /\ detectionCache[1000].key # CacheKey(WarmMessage(1000), 60)

-----------------------------------------------------------------------------
(* Properties of fetchEmails *)

\* the messages of the pages received, in the order of the requests
RECURSIVE Received(_)
Received(k) ==
    IF k = 0 THEN <<>>
    ELSE Received(k - 1) \o mailbox[k].value

Outstanding == {i \in 1..Len(mailbox) : mailbox[i].kind = "pending"}

\* a page after which the loop asks for another one
AsksForMore(k) ==
    /\ mailbox[k].kind = "page"
    /\ Len(mailbox[k].value) > 0
    /\ mailbox[k].nextLink
    /\ Len(Received(k)) < args.maxEmails

FetchReturned ==
    \/ rpc \in {"fetched", "classifying", "crossref", "crossreferenced",
               "written", "write-failed"}
    \/ (rpc = "done" /\ response # FetchError /\ response # AuthError)

\* C23: fetchEmails has at most one page request outstanding; it sends a
\* request only after pages that were not empty, had a next-page cursor and
\* left the count below maxEmails; it returns the first maxEmails messages
\* received, in fetch order; and when every request is answered it ends.
C23_SequentialFetchTerminates ==
    /\ [](/\ Cardinality(Outstanding) <= 1
          /\ \A k \in 1..(Len(mailbox) - 1) : AsksForMore(k)
          /\ FetchReturned =>
                /\ Len(emails) <= args.maxEmails
                /\ \A all \in {Received(Len(mailbox))} :
                      emails = SubSeq(all, 1, IF Len(all) < args.maxEmails
                                              THEN Len(all) ELSE args.maxEmails))
    /\ (rpc = "fetching" ~> rpc \in {"fetched", "done"})

\* the last page went beyond maxEmails after an earlier page that asked for
\* more, and the messages returned were cut to maxEmails
C23_Witness ==
    /\ rpc = "fetched"
    /\ Len(mailbox) >= 2
    /\ Len(Received(Len(mailbox))) > args.maxEmails
    /\ Len(emails) = args.maxEmails

-----------------------------------------------------------------------------
(* Properties of what the detection cache stores *)

\* the fail-safe result, as the code writes it
FailSafeResult ==
    [ isNewsletter |-> FALSE,
      confidence   |-> 0,
      signals      |-> <<"detection-error">>,
      reason       |-> "detection-error" ]

\* C24: a call of detectNewsletter that returns the fail-safe result, and a
\* call that hits the cache, leave the cache unchanged; a call changes the
\* cache only by inserting the result it computed, so no entry of the cache
\* holds the fail-safe result.
C24_ErrorsAndHitsLeaveCache ==
    /\ [](\A i \in 1..Len(detectionCache) : detectionCache[i].value # FailSafeResult)
    /\ [][ npc' = "called" =>
             /\ (detection' = FailSafeResult \/ ~scanned') =>
                    detectionCache' = detectionCache
             /\ detectionCache' # detectionCache =>
                    /\ scanned'
                    /\ detectionCache'[Len(detectionCache')] =
                          [key |-> CacheKey(email', threshold'), value |-> detection'] ]_vars

\* a scanner raised on a message whose key is not in the cache, and the
\* cache holds entries, none of them under that key
C24_Witness ==
    /\ npc = "called"
    /\ scanned
    /\ detection = FailSafeResult
    /\ Len(detectionCache) >= 999
    /\ \A i \in 1..Len(detectionCache) :
          detectionCache[i].key # CacheKey(email, threshold)

-----------------------------------------------------------------------------
(* Properties of callGraphAPI *)

\* C25: every attempt is sent with the method, the path and the query
\* parameters of the first attempt, these being the parameters the caller
\* passed, and the caller's queryParams object is left as it was passed.
C25_RetriesRepeatTheRequest ==
    /\ \A i \in 1..Len(attempts) :
          /\ attempts[i].method = attempts[1].method
          /\ attempts[i].path = attempts[1].path
          /\ attempts[i].query = attempts[1].query
    /\ queryParams = request.queryParams

Retryable == {429, 503, 504}

\* C26: an invocation makes at most 4 attempts; an attempt is followed by
\* another only when it received 429, 503 or 504; an attempt that received
\* 401 or any other status outside 2xx and not retried rejects the
\* invocation; and when every attempt is answered the invocation settles.
C26_BoundedRetriesSettle ==
    /\ [](/\ Len(attempts) <= 4
          /\ \A i \in 1..(Len(attempts) - 1) : attempts[i].status \in Retryable
          /\ \A i \in 1..Len(attempts) :
                (attempts[i].status = 401
                   \/ (attempts[i].status >= 300 /\ attempts[i].status \notin Retryable)) =>
                  (i = Len(attempts) /\ promise = "rejected" /\ kpc = "done"))
    /\ <>(promise # "pending")

\* three retries were made and the fourth attempt, answered 503, rejected
C26_Witness ==
    /\ Len(attempts) = 4
    /\ retryCount = 3
    /\ attempts[4].status = 503
    /\ promise = "rejected"

-----------------------------------------------------------------------------
(* Properties of the count of deduplicateContacts *)

\* the positions of the input contacts that have an email
WithEmail == {i \in 1..Len(contacts) : HasEmail(contacts[i])}

\* C27: duplicatesRemoved is the number of input contacts merged into an
\* earlier record of the same identity: the number of input contacts that
\* have an email minus the number of distinct identities.
C27_CountsMergedContacts ==
    dpc # "start" =>
        out.duplicatesRemoved =
            Cardinality(WithEmail) - Cardinality({Identity(contacts[i]) : i \in WithEmail})

-----------------------------------------------------------------------------
(* Properties of the length of the signature *)

\* C28: every non-null value returned by extractSignature, found through a
\* marker or through the fallback of the last four lines, is at most 500
\* characters long.
C28_SignatureAtMost500 ==
    gpc = "extracted" => (signature = NullSeq \/ Len(signature) <= 500)

-----------------------------------------------------------------------------
(* Properties of the six scanners *)

ScannerCount == 6

\* the orders in which the six scanners can be invoked
ScannerOrders ==
    {order \in [1..ScannerCount -> 1..ScannerCount] :
        \A i, j \in 1..ScannerCount : i # j => order[i] # order[j]}

\* the scanner results taken in the given order
InOrder(rs, order) == [i \in 1..ScannerCount |-> rs[order[i]]]

\* score += scanner(...), scanner by scanner
RECURSIVE TotalOf(_)
TotalOf(rs) == IF rs = <<>> THEN 0 ELSE Head(rs).score + TotalOf(Tail(rs))

\* the tags in the signal list after the scanners have pushed theirs
RECURSIVE TagsOf(_)
TagsOf(rs) == IF rs = <<>> THEN <<>> ELSE Head(rs).signals \o TagsOf(Tail(rs))

TagSet(tags) == {tags[i] : i \in 1..Len(tags)}

\* the latest call ran the scanners and none of them raised
ScannersReturned(rs) ==
    /\ npc = "detected"
    /\ scanned
    /\ \A i \in 1..Len(rs) : ~rs[i].throws

\* C29: the total score and the set of signal tags of a message are the
\* same for every order in which the six scanners are invoked; each
\* scanner's score is never negative and is 0 exactly when the scanner
\* appends no tag.
C29_ScannerOrderIrrelevant ==
    \A rs \in {RunScanners(email)} :
      /\ (npc = "detected" /\ scanned /\ \E i \in 1..Len(rs) : rs[i].throws)
            => detection = DetectionError
      /\ ScannersReturned(rs) =>
            /\ \A order \in ScannerOrders :
                  \A total \in {TotalOf(InOrder(rs, order))} :
                      /\ detection.confidence = Min(total, 100)
                      /\ detection.isNewsletter = (total >= threshold)
                      /\ TagSet(detection.signals) = TagSet(TagsOf(InOrder(rs, order)))
            /\ \A i \in 1..Len(rs) :
                  /\ rs[i].score >= 0
                  /\ rs[i].score = 0 <=> rs[i].signals = <<>>

\* the scanners taken last to first
ReverseOrder == [i \in 1..ScannerCount |-> ScannerCount + 1 - i]

\* a message on which a later scanner scores after an earlier one scored
\* nothing, and whose tags come in another sequence when the scanners are
\* invoked last to first
C29_Witness ==
    \E rs \in {RunScanners(email)} :
        /\ ScannersReturned(rs)
        /\ \E i, j \in 1..Len(rs) : i < j /\ rs[i].score = 0 /\ rs[j].score > 0
        /\ TagsOf(InOrder(rs, ReverseOrder)) # detection.signals
        /\ detection.confidence < 100

-----------------------------------------------------------------------------
(* Properties of calculateConfidence *)

\* the items of information a contact has populated
Populated(c) ==
    (IF c.displayName # Null /\ c.displayName # "" THEN {"displayName"} ELSE {})
    \cup (IF c.firstName # Null /\ c.firstName # ""
             /\ c.lastName # Null /\ c.lastName # "" THEN {"names"} ELSE {})
    \cup (IF c.phoneNumbers # NullSeq /\ c.phoneNumbers # <<>> THEN {"phoneNumbers"} ELSE {})
    \cup (IF c.linkedInUrls # NullSeq /\ c.linkedInUrls # <<>> THEN {"linkedInUrls"} ELSE {})
    \cup (IF c.companyName # Null /\ c.companyName # "" THEN {"companyName"} ELSE {})
    \cup (IF c.jobTitle # Null /\ c.jobTitle # "" THEN {"jobTitle"} ELSE {})

\* twice the point total: 1 for the email, 2 for the display name, 2 for
\* the pair of names, 1 for each other item, 1 for the source metadata and
\* one half for the source signature
TwicePoints(c) ==
    2 + 4 * Cardinality(Populated(c) \cap {"displayName", "names"})
      + 2 * Cardinality(Populated(c) \ {"displayName", "names"})
      + (CASE c.source = "metadata" -> 2 [] c.source = "signature" -> 1 [] OTHER -> 0)

TierOfPoints(twice) ==
    IF twice >= 14 THEN "high" ELSE IF twice >= 8 THEN "medium" ELSE "low"

TierLevel(tier) == CASE tier = "high" -> 3 [] tier = "medium" -> 2 [] OTHER -> 1

\* the contacts the scored contact is compared with: normalized contacts of
\* one address whose tier was computed
ComparedContacts ==
    {normalizeContact(r, "2024-01-03T00:00:00Z")[1] :
        r \in {q \in RawPool : q.email = <<"A">> /\ q.extractionConfidence = Null
                                /\ q.firstSeenDate = Null}}

\* the normalized contact got its tier from calculateConfidence
TierComputed ==
    /\ zpc = "normalized"
    /\ normalizedContact # <<>>
    /\ (raw.extractionConfidence = Null \/ raw.extractionConfidence = "")

\* C30: for two contacts with the same source where every item populated
\* in the first is populated in the second, the tier of the second is the
\* same or higher; the tier is high when the point total is at least 7,
\* medium when at least 4, low otherwise.
C30_ConfidenceMonotonic ==
    TierComputed =>
        \A c \in {normalizedContact[1]} :
            /\ c.extractionConfidence = TierOfPoints(TwicePoints(c))
            /\ \A other \in ComparedContacts :
                  /\ (other.source = c.source /\ Populated(c) \subseteq Populated(other))
                        => TierLevel(other.extractionConfidence)
                              >= TierLevel(c.extractionConfidence)
                  /\ (other.source = c.source /\ Populated(other) \subseteq Populated(c))
                        => TierLevel(c.extractionConfidence)
                              >= TierLevel(other.extractionConfidence)

\* a contact of exactly 7 points, rated high, beside a contact of the same
\* source with fewer items populated that is rated lower
C30_Witness ==
    /\ TierComputed
    /\ TwicePoints(normalizedContact[1]) = 14
    /\ normalizedContact[1].extractionConfidence = "high"
    /\ \E other \in ComparedContacts :
          /\ other.source = normalizedContact[1].source
          /\ Populated(other) \subseteq Populated(normalizedContact[1])
          /\ Populated(other) # Populated(normalizedContact[1])
          /\ other.extractionConfidence = "medium"

=============================================================================
